---- MODULE Spec2Model ----
(***************************************************************************)
(* CALDROS-GTO: the Execution Engine (execution_system/executor.py) and    *)
(* the Risk Manager (risk_management/manager.py) as one state machine.     *)
(*                                                                         *)
(* Units.  Times are whole minutes read from the clock `now`               *)
(* (datetime.utcnow()); one handler invocation reads one clock value.      *)
(* EV values are in thousandths (EV 0.20 is 200), probabilities and the    *)
(* Kelly fraction in hundredths (p_win 0.5 is 50), drawdown limit and      *)
(* margin ratio in percent.                                                *)
(***************************************************************************)
EXTENDS Integers, Sequences, FiniteSets, TLC

\* ------------------------------------------------------------------ bounds
\* The last instant the clock is observed at.
MaxTime == 1441
\* register_trade_result is called with a losing pnl at most this often
\* (drawdown_history and loss_streak grow without limit in the code).
MaxLosses == 4
\* The capacity of the EV engine's trade history (config
\* ev_engine.estimation.window_trades) and of the signal engine's history
\* (deque(maxlen=1000) in the code), and the number of records inserted
\* into either.
TradeWindow == 3
SignalHistoryMaxLen == 3
MaxRecords == 5
MaxGenerations == 4

\* -------------------------------------------------------- program constants
CooldownMinutes == 5            \* executor.py:147 timedelta(minutes=5)
MaxHoldingMinutes == 1440       \* executor.py:109 timedelta(hours=24)
NoProfitMinutes == 15           \* executor.py:114 timedelta(minutes=15)
BreakerCooldownMinutes == 180   \* manager.py:98  timedelta(minutes=180)
StreakLimit == 3                \* manager.py:115 loss_streak >= 3
EvFloor == -50                  \* manager.py:39, executor.py:157  ev < -0.05
\* configuration values (production.json is read, not defined, by the code)
BaseThreshold == 50             \* config ev_engine.dynamic_thresholds.base_threshold
DailyDrawdownLimitPct == 10     \* config risk_management.daily_drawdown_limit_pct
MarginHealthThreshold == 20     \* config accounting.margin_health_threshold

RecoveryDrawdownPct == 20       \* recovery_mode: drawdown > 0.20
NoTime == -1                    \* last_trigger_time = None

\* EV engine configuration (production.json is read, not defined, by the code)
BetaPriorAlpha == 2             \* config ev_engine.estimation.beta_prior.alpha
BetaPriorBeta == 2              \* config ev_engine.estimation.beta_prior.beta
NoSignal == <<>>                \* signal_engine.get_signal(symbol) finds nothing

Symbols == {"BTCUSDT", "ETHUSDT"}

\* The instants at which the clock is read.  RiskTimePoints hold both sides
\* of the breaker cooldown (180) counted from 0, 4 and 5; CycleTimePoints
\* both sides of the entry cooldown (4, 5 for an exit at 0; 18, 21, 22 for
\* an exit at 16), of the no-profit limit (15), of the breaker cooldown
\* (180) and of the maximum holding time (1440); PairTimePoints one instant
\* past each of them but the last.
RiskTimePoints == {0, 4, 5, 179, 180, 181, 184, 185, 186, 361, 362}
CycleTimePoints == {0, 4, 5, 15, 16, 18, 21, 22, 180, 181, 1440, MaxTime}
PairTimePoints == {0, 5, 16, 181}

\* What the accounting collaborator answers when asked (get_equity,
\* get_equity_peak, get_margin_ratio, get_available_balance).
AccountingStates ==
    { [equity |-> 100, equity_peak |-> 100, margin_ratio |-> 50, available_balance |-> 1000],
      [equity |-> 90,  equity_peak |-> 100, margin_ratio |-> 20, available_balance |-> 1000],
      [equity |-> 80,  equity_peak |-> 100, margin_ratio |-> 50, available_balance |-> 1000],
      [equity |-> 100, equity_peak |-> 100, margin_ratio |-> 10, available_balance |-> 1000],
      [equity |-> 0,   equity_peak |-> 0,   margin_ratio |-> 50, available_balance |-> 1000] }

\* The accounting answers with the margin ratio healthy and a peak known.
DrawdownStates == {a \in AccountingStates : a.margin_ratio = 50 /\ a.equity_peak > 0}

PnlValues == {-10, 0, 10}
EvArgs == {-100, -50, 200}

VARIABLES
    now,                     \* datetime.utcnow()
    \* RiskManager
    circuit_breaker_active, last_trigger_time, loss_streak, drawdown_history,
    \* ExecutionEngine
    active_positions, cooldowns,
    \* history of the run (not program state)
    last_call,               \* the last public operation called and what it returned
    cycle,                   \* what the last execute_cycle met (see ExecuteCycle)
    last_exit,               \* symbol -> time of its last exit
    open_orders,             \* symbol -> orders sent for it and not closed by an exit
    hist,                    \* registrations seen so far (see HistAfterRegister)
    \* SignalEngine
    signals, signal_history,
    \* EVEngine
    ev_history,
    \* history of the run (not program state)
    last_result,             \* the last EV engine operation applied and its answer
    signal_log,              \* every record appended to signal_history, in order
    ev_log,                  \* every entry appended to ev_history, in order
    \* the periodic loops
    features_gen,            \* how often the ingestion manager has replaced self.features
    signals_gen,             \* the features_gen of the features self.signals was computed from
    running                  \* the execution cycle in progress or last finished

riskVars == <<circuit_breaker_active, last_trigger_time, loss_streak, drawdown_history>>
execVars == <<active_positions, cooldowns, cycle, last_exit, open_orders>>
signalVars == <<signals, signal_history, signal_log>>
evVars == <<ev_history, last_result, ev_log>>
tradingVars == <<now, riskVars, execVars, last_call, hist>>
loopVars == <<features_gen, signals_gen, running>>
vars == <<tradingVars, signalVars, evVars, loopVars>>

\* ------------------------------------------------------------ Risk Manager
RiskSelf ==
    [circuit_breaker_active |-> circuit_breaker_active,
     last_trigger_time |-> last_trigger_time,
     loss_streak |-> loss_streak,
     drawdown_history |-> drawdown_history]

_trigger_circuit_breaker(self, t) ==
    [self EXCEPT !.circuit_breaker_active = TRUE, !.last_trigger_time = t]

\* Variant: a drawdown equal to the limit trips the breaker.
_check_drawdown_at_limit(self, acct, t) ==
    LET num == IF acct.equity_peak > 0 THEN acct.equity_peak - acct.equity ELSE 0
        den == IF acct.equity_peak > 0 THEN acct.equity_peak ELSE 1
    IN  IF num * 100 >= DailyDrawdownLimitPct * den
        THEN [self |-> _trigger_circuit_breaker(self, t), ret |-> FALSE]
        ELSE [self |-> self, ret |-> TRUE]

\* drawdown = (peak - equity) / peak if peak > 0 else 0, kept as the
\* fraction num / den: drawdown > limit iff num * 100 > limit * den.
_check_drawdown(self, acct, t) ==
    LET equity == acct.equity
        peak == acct.equity_peak
        num == IF peak > 0 THEN peak - equity ELSE 0
        den == IF peak > 0 THEN peak ELSE 1
    IN  IF num * 100 > DailyDrawdownLimitPct * den
        THEN [self |-> _trigger_circuit_breaker(self, t), ret |-> FALSE]
        ELSE [self |-> self, ret |-> TRUE]

_check_margin_health(self, acct, t) ==
    IF acct.margin_ratio < MarginHealthThreshold
    THEN [self |-> _trigger_circuit_breaker(self, t), ret |-> FALSE]
    ELSE [self |-> self, ret |-> TRUE]

\* Variant: the drawdown and margin checks run before the EV floor.
pre_trade_check_checks_first(self, ev, acct, t) ==
    IF self.circuit_breaker_active THEN [self |-> self, ret |-> FALSE]
    ELSE LET d == _check_drawdown(self, acct, t) IN
         IF ~d.ret THEN d
         ELSE LET m == _check_margin_health(d.self, acct, t) IN
              IF ~m.ret THEN m
              ELSE [self |-> m.self, ret |-> ~(ev < EvFloor)]

\* Variant: the breaker flag is dropped once the cooldown has elapsed.
pre_trade_check_lazy_expiry(self, ev, acct, t) ==
    LET s0 == IF self.circuit_breaker_active
                 /\ t - self.last_trigger_time > BreakerCooldownMinutes
              THEN [self EXCEPT !.circuit_breaker_active = FALSE, !.loss_streak = 0]
              ELSE self
    IN  IF s0.circuit_breaker_active THEN [self |-> s0, ret |-> FALSE]
        ELSE IF ev < EvFloor THEN [self |-> s0, ret |-> FALSE]
        ELSE LET d == _check_drawdown(s0, acct, t) IN
             IF ~d.ret THEN d ELSE _check_margin_health(d.self, acct, t)

pre_trade_check(self, ev, acct, t) ==
    IF self.circuit_breaker_active THEN [self |-> self, ret |-> FALSE]
    ELSE IF ev < EvFloor THEN [self |-> self, ret |-> FALSE]
    ELSE LET d == _check_drawdown(self, acct, t) IN
         IF ~d.ret THEN d
         ELSE LET m == _check_margin_health(d.self, acct, t) IN
              IF ~m.ret THEN m ELSE [self |-> m.self, ret |-> TRUE]

\* Variant: the cooldown ends at 180 minutes, not after them.
check_circuit_breaker_at_cooldown(self, t) ==
    IF ~self.circuit_breaker_active THEN [self |-> self, ret |-> FALSE]
    ELSE IF t - self.last_trigger_time >= BreakerCooldownMinutes
         THEN [self |-> [self EXCEPT !.circuit_breaker_active = FALSE, !.loss_streak = 0],
               ret |-> FALSE]
         ELSE [self |-> self, ret |-> TRUE]

\* Variant: re-arming leaves the loss streak as it is.
check_circuit_breaker_keeps_streak(self, t) ==
    IF ~self.circuit_breaker_active THEN [self |-> self, ret |-> FALSE]
    ELSE IF t - self.last_trigger_time > BreakerCooldownMinutes
         THEN [self |-> [self EXCEPT !.circuit_breaker_active = FALSE], ret |-> FALSE]
         ELSE [self |-> self, ret |-> TRUE]

check_circuit_breaker(self, t) ==
    IF ~self.circuit_breaker_active THEN [self |-> self, ret |-> FALSE]
    ELSE IF t - self.last_trigger_time > BreakerCooldownMinutes
         THEN [self |-> [self EXCEPT !.circuit_breaker_active = FALSE, !.loss_streak = 0],
               ret |-> FALSE]
         ELSE [self |-> self, ret |-> TRUE]

\* Variant: the breaker trips only above the streak limit.
register_trade_result_trips_late(self, pnl, t) ==
    IF pnl < 0
    THEN LET s1 == [self EXCEPT !.loss_streak = @ + 1,
                                !.drawdown_history = Append(@, pnl)]
         IN  IF s1.loss_streak > StreakLimit THEN _trigger_circuit_breaker(s1, t) ELSE s1
    ELSE [self EXCEPT !.loss_streak = 0]

register_trade_result(self, pnl, t) ==
    IF pnl < 0
    THEN LET s1 == [self EXCEPT !.loss_streak = @ + 1,
                                !.drawdown_history = Append(@, pnl)]
         IN  IF s1.loss_streak >= StreakLimit THEN _trigger_circuit_breaker(s1, t) ELSE s1
    ELSE [self EXCEPT !.loss_streak = 0]

SetRisk(self) ==
    /\ circuit_breaker_active' = self.circuit_breaker_active
    /\ last_trigger_time' = self.last_trigger_time
    /\ loss_streak' = self.loss_streak
    /\ drawdown_history' = self.drawdown_history

\* Variant: capital preservation from a drawdown of 20% on.
recovery_mode_at_limit(acct) ==
    LET equity == acct.equity
        peak == acct.equity_peak
        num == IF peak > 0 THEN peak - equity ELSE 0
        den == IF peak > 0 THEN peak ELSE 1
    IN  IF num * 100 >= RecoveryDrawdownPct * den
        THEN [mode |-> "capital_preservation", leverage_reduction |-> 50,
              allowed_tiers |-> <<"T4", "T5">>,
              resume_condition |-> "drawdown < 10% and EV > 0.05"]
        ELSE [mode |-> "normal"]

\* drawdown = (peak - equity) / peak if peak > 0 else 0; above 0.20 the
\* capital preservation mode (leverage_reduction in hundredths).
recovery_mode(acct) ==
    LET equity == acct.equity
        peak == acct.equity_peak
        num == IF peak > 0 THEN peak - equity ELSE 0
        den == IF peak > 0 THEN peak ELSE 1
    IN  IF num * 100 > RecoveryDrawdownPct * den
        THEN [mode |-> "capital_preservation", leverage_reduction |-> 50,
              allowed_tiers |-> <<"T4", "T5">>,
              resume_condition |-> "drawdown < 10% and EV > 0.05"]
        ELSE [mode |-> "normal"]

\* dict operations
Put(d, k, v) == [x \in DOMAIN d \cup {k} |-> IF x = k THEN v ELSE d[x]]
Pop(d, k) == [x \in DOMAIN d \ {k} |-> d[x]]
EmptyDict == [x \in {} |-> 0]

\* --------------------------------------------------------------- EV Engine
\* The EV engine computes in floats.  Here a probability, a gain, a loss, a
\* fee, a score and a market feature are integers in units of 1/10000 (Unit
\* is 1.0), and an EV, the difference of two products, is in units of
\* 1/100000000, so that p * G - (1 - p) * L - fee is exact.
Unit == 10000

Clip(x, lo, hi) == IF x < lo THEN lo ELSE IF x > hi THEN hi ELSE x

\* state.get(key, default)
Get(d, key, default) == IF key \in DOMAIN d THEN d[key] ELSE default

\* np.exp(-v) for the volatilities of the model, to four decimals.
ExpNeg(v) ==
    CASE v = 0 -> 10000
      [] v = 5000 -> 6065
      [] v = 10000 -> 3679
      [] v = 20000 -> 1353

\* The entries of self.history for the symbol that are wins / are not.
PastWins(history, symbol) ==
    Cardinality({i \in 1..Len(history) : history[i].symbol = symbol /\ history[i].win})

PastLosses(history, symbol) ==
    Cardinality({i \in 1..Len(history) : history[i].symbol = symbol /\ ~history[i].win})

\* p = alpha_post / (alpha_post + beta_post) * exp(-volatility) * trend_boost,
\* clipped to [0.01, 0.99].  The two posts add up to
\* alpha0 + beta0 + wins + losses + 10 whatever the score is.
_estimate_probability(history, symbol, score, state) ==
    LET past_wins == PastWins(history, symbol)
        past_losses == PastLosses(history, symbol)
        alpha_post == (BetaPriorAlpha + past_wins) * Unit + score * 10
        beta_post == (BetaPriorBeta + past_losses) * Unit + (Unit - score) * 10
        \* alpha_post + beta_post is a multiple of 10
        p0 == (alpha_post * 1000) \div ((alpha_post + beta_post) \div 10)
        vol_penalty == ExpNeg(Get(state, "volatility", 5000))
        trend_boost == Unit + (15 * Get(state, "trend_consistency", 0)) \div 100
        p == (((p0 * vol_penalty) \div Unit) * trend_boost) \div Unit
    IN  Clip(p, 100, 9900)

\* _estimate_gain without the clip.
_estimate_gain_unclipped(state) ==
    LET atr == Get(state, "ATR", 100)
        momentum == Get(state, "momentum", Unit)
        liquidity == Get(state, "liquidity_score", Unit)
    IN  Unit + 3 * ((((atr * momentum) \div Unit) * liquidity) \div Unit)

\* G = 1 + 3 * atr * momentum * liquidity, clipped to [0.5, 5.0]
_estimate_gain(state) ==
    LET atr == Get(state, "ATR", 100)
        momentum == Get(state, "momentum", Unit)
        liquidity == Get(state, "liquidity_score", Unit)
        G == Unit + 3 * ((((atr * momentum) \div Unit) * liquidity) \div Unit)
    IN  Clip(G, 5000, 50000)

\* L = 1 + 2 * vol * (1 / depth) + slippage * 10, clipped to [0.5, 5.0];
\* 1 / depth raises ZeroDivisionError for a depth of 0.
_estimate_loss(state) ==
    LET vol == Get(state, "volatility", Unit)
        depth == Get(state, "depth_score", Unit)
        slippage == Get(state, "slippage", 100)
    IN  IF depth = 0 THEN [raised |-> TRUE, value |-> 0]
        ELSE [raised |-> FALSE,
              value |-> Clip(Unit + (2 * vol * Unit) \div depth + slippage * 10,
                             5000, 50000)]

\* _estimate_fees charging the base fee alone.
_estimate_fees_base_only(state) == 16

\* base fee 0.0016 + |funding_rate| * 10 + slippage * 2
_estimate_fees(state) ==
    LET f == Get(state, "funding_rate", 0)
        funding == (IF f < 0 THEN -f ELSE f) * 10
        slippage_cost == Get(state, "slippage", 100) * 2
    IN  16 + funding + slippage_cost

\* _classify_ev with the top boundary exclusive.
_classify_ev_exclusive(ev) ==
    IF ev > 35000000 THEN "T1_explosive"
    ELSE IF ev >= 20000000 THEN "T2_strong"
    ELSE IF ev >= 10000000 THEN "T3_moderate"
    ELSE IF ev >= 3000000 THEN "T4_neutral"
    ELSE IF ev >= -2000000 THEN "T5_scalping"
    ELSE "T6_defensive"

\* EV thresholds 0.35, 0.20, 0.10, 0.03, -0.02 in units of 1/100000000.
_classify_ev(ev) ==
    IF ev >= 35000000 THEN "T1_explosive"
    ELSE IF ev >= 20000000 THEN "T2_strong"
    ELSE IF ev >= 10000000 THEN "T3_moderate"
    ELSE IF ev >= 3000000 THEN "T4_neutral"
    ELSE IF ev >= -2000000 THEN "T5_scalping"
    ELSE "T6_defensive"

\* _recommend_leverage drawing from low .. high.
_recommend_leverage_inclusive(ev) ==
    IF ev >= 35000000 THEN 90..120
    ELSE IF ev >= 20000000 THEN 50..85
    ELSE IF ev >= 10000000 THEN 20..50
    ELSE IF ev >= 3000000 THEN 10..30
    ELSE IF ev >= -2000000 THEN 5..15
    ELSE 1..5

\* np.random.randint(low, high) draws from low .. high - 1: the values the
\* call can return.
_recommend_leverage(ev) ==
    IF ev >= 35000000 THEN 90..119
    ELSE IF ev >= 20000000 THEN 50..84
    ELSE IF ev >= 10000000 THEN 20..49
    ELSE IF ev >= 3000000 THEN 10..29
    ELSE IF ev >= -2000000 THEN 5..14
    ELSE 1..4

\* b = G / L if L != 0 else 1; kelly = (p * (b + 1) - 1) / b, clipped to
\* [0, 0.25].  With b = G / L this is (p * (G + L) - L) / G; a G of 0 makes
\* b = 0 and the division raise ZeroDivisionError.
\* Variant: the fraction is the edge over the gain.
_dynamic_kelly_edge(p, G, L) ==
    IF L = 0 THEN [raised |-> FALSE, value |-> Clip(2 * p - Unit, 0, 2500)]
    ELSE IF G = 0 THEN [raised |-> TRUE, value |-> 0]
    ELSE [raised |-> FALSE,
          value |-> Clip((p * (G + Unit) - (Unit - p) * L) \div G, 0, 2500)]

_dynamic_kelly(p, G, L) ==
    IF L = 0 THEN [raised |-> FALSE, value |-> Clip(2 * p - Unit, 0, 2500)]
    ELSE IF G = 0 THEN [raised |-> TRUE, value |-> 0]
    ELSE [raised |-> FALSE,
          value |-> Clip((p * (G + L) - L * Unit) \div G, 0, 2500)]

\* _record_history without the eviction.
_record_history_keeps_all(history, symbol, ev) ==
    Append(history, [symbol |-> symbol, win |-> ev > 0])

\* _record_history evicting the entry it has just appended.
_record_history_drops_newest(history, symbol, ev) ==
    LET h == Append(history, [symbol |-> symbol, win |-> ev > 0])
    IN  IF Len(h) > TradeWindow THEN SubSeq(h, 1, TradeWindow) ELSE h

\* self.history.append(...); if len(self.history) > self.trade_window:
\* self.history.pop(0).  Of an entry the model keeps what the engine reads
\* again: the symbol and the win flag.
_record_history(history, symbol, ev) ==
    LET h == Append(history, [symbol |-> symbol, win |-> ev > 0])
    IN  IF Len(h) > TradeWindow THEN Tail(h) ELSE h

\* ev = p * G - (1 - p) * L - fees
expected_value(p, G, L, fees) == p * G - (Unit - p) * L - fees * Unit

\* calculate_ev_for_symbol with the signal the signal engine has for the
\* symbol (NoSignal if none).  The answer is the new history, whether an
\* exception was raised, and the result ({} without a signal), with the
\* leverages np.random can draw for recommended_leverage.
calculate_ev_for_symbol(history, symbol, signal_data, market_state) ==
    IF signal_data = NoSignal
    THEN [history |-> history, raised |-> FALSE, result |-> <<>>]
    ELSE LET score == signal_data.signal_score
             p == _estimate_probability(history, symbol, score, market_state)
             G == _estimate_gain(market_state)
             L == _estimate_loss(market_state)
         IN  IF L.raised THEN [history |-> history, raised |-> TRUE, result |-> <<>>]
             ELSE LET ev == expected_value(p, G, L.value, _estimate_fees(market_state))
                      tier == _classify_ev(ev)
                      position_size == _dynamic_kelly(p, G, L.value)
                  IN  [history |-> _record_history(history, symbol, ev),
                       raised |-> FALSE,
                       result |-> [symbol |-> symbol, p_win |-> p, G |-> G, L |-> L.value,
                                   EV |-> ev, tier |-> tier,
                                   kelly_position |-> position_size.value,
                                   recommended_leverage |-> _recommend_leverage(ev)]]

\* ----------------------------------------------------------- Signal Engine
\* deque(maxlen=n).append(x)
DequeAppend(q, x, maxlen) ==
    IF maxlen = 0 THEN q
    ELSE IF Len(q) >= maxlen THEN Append(Tail(q), x) ELSE Append(q, x)

\* config signal_engine.fusion_logic.weights, in units of 1/10000.
Weights ==
    [breakout |-> 2500, momentum |-> 2000, whale_flow |-> 1500,
     orderbook_imbalance |-> 1000, funding_flip |-> 500, macro_sentiment |-> 1000,
     onchain_flow |-> 500, etf_flow |-> 500, social_sentiment |-> 500]

Min(x, y) == IF x < y THEN x ELSE y

Abs(x) == IF x < 0 THEN -x ELSE x

\* One factor of the fusion times its weight.
Weighted(factor, component) == (factor * Weights[component]) \div Unit

RECURSIVE SumOver(_, _)
SumOver(d, keys) ==
    IF keys = {} THEN 0
    ELSE LET k == CHOOSE x \in keys : TRUE IN d[k] + SumOver(d, keys \ {k})

\* Variant: a missing price_velocity counts as a breakout.
_fusion_breakout_default(feat) ==
    LET breakdown ==
          [breakout |->
               Weighted(IF Get(feat, "price_velocity", 10) > 5 THEN Unit ELSE 0, "breakout"),
           momentum |->
               Weighted(Min(Get(feat, "volume_acceleration", 0) \div 5, Unit), "momentum"),
           whale_flow |->
               Weighted(Min(Get(feat, "liquidation_heat", 0) \div 10, Unit), "whale_flow"),
           orderbook_imbalance |->
               Weighted(Min(Abs(Get(feat, "order_imbalance", 0)), Unit),
                        "orderbook_imbalance"),
           funding_flip |->
               Weighted(IF Get(feat, "funding_bias", 0) > 0 THEN 2000 ELSE -2000,
                        "funding_flip"),
           macro_sentiment |->
               Weighted(Get(feat, "macro_sentiment_score", 0), "macro_sentiment"),
           onchain_flow |-> Weighted(Get(feat, "onchain_score", 0), "onchain_flow"),
           etf_flow |-> Weighted(Get(feat, "etf_flow_score", 0), "etf_flow"),
           social_sentiment |->
               Weighted(Get(feat, "social_sentiment_score", 0), "social_sentiment")]
    IN  [breakdown |-> breakdown, score |-> SumOver(breakdown, DOMAIN breakdown)]

\* _fusion: nine factors, each from one feature (0 if the feature is
\* missing), each times its weight; the score is the sum of the breakdown.
\* 0.0005 is 5 and 0.2 is 2000 in units of 1/10000.
_fusion(feat) ==
    LET breakdown ==
          [breakout |->
               Weighted(IF Get(feat, "price_velocity", 0) > 5 THEN Unit ELSE 0, "breakout"),
           momentum |->
               Weighted(Min(Get(feat, "volume_acceleration", 0) \div 5, Unit), "momentum"),
           whale_flow |->
               Weighted(Min(Get(feat, "liquidation_heat", 0) \div 10, Unit), "whale_flow"),
           orderbook_imbalance |->
               Weighted(Min(Abs(Get(feat, "order_imbalance", 0)), Unit),
                        "orderbook_imbalance"),
           funding_flip |->
               Weighted(IF Get(feat, "funding_bias", 0) > 0 THEN 2000 ELSE -2000,
                        "funding_flip"),
           macro_sentiment |->
               Weighted(Get(feat, "macro_sentiment_score", 0), "macro_sentiment"),
           onchain_flow |-> Weighted(Get(feat, "onchain_score", 0), "onchain_flow"),
           etf_flow |-> Weighted(Get(feat, "etf_flow_score", 0), "etf_flow"),
           social_sentiment |->
               Weighted(Get(feat, "social_sentiment_score", 0), "social_sentiment")]
    IN  [breakdown |-> breakdown, score |-> SumOver(breakdown, DOMAIN breakdown)]

\* Variant: the neutral tier starts at an EV of 0.05.
_ev_classify_neutral_from_5(p, feat) ==
    LET G == Unit + Get(feat, "volume_acceleration", 0) \div 2
        L == Unit + Get(feat, "volatility", Unit)
        ev == p * G - (Unit - p) * L - 160000
    IN  [ev |-> ev,
         tier |-> IF ev >= 35000000 THEN "T1_explosive"
                  ELSE IF ev >= 20000000 THEN "T2_strong"
                  ELSE IF ev >= 10000000 THEN "T3_moderate"
                  ELSE IF ev >= 5000000 THEN "T4_neutral"
                  ELSE IF ev >= -2000000 THEN "T5_scalping"
                  ELSE "T6_defensive"]

\* _ev_classify from the win probability on: p stands for the sigmoid of
\* the score, 1 / (1 + exp(-6 * (score - activation_threshold))), in units
\* of 1/10000.  G = 1 + 2.5 * volume_acceleration / 5, L = 1 + volatility
\* (1.0 when missing), ev = p * G - (1 - p) * L - 0.0016 in units of
\* 1/100000000, and the tier by the threshold ladder.
_ev_classify(p, feat) ==
    LET G == Unit + Get(feat, "volume_acceleration", 0) \div 2
        L == Unit + Get(feat, "volatility", Unit)
        ev == p * G - (Unit - p) * L - 160000
    IN  [ev |-> ev,
         tier |-> IF ev >= 35000000 THEN "T1_explosive"
                  ELSE IF ev >= 20000000 THEN "T2_strong"
                  ELSE IF ev >= 10000000 THEN "T3_moderate"
                  ELSE IF ev >= 3000000 THEN "T4_neutral"
                  ELSE IF ev >= -2000000 THEN "T5_scalping"
                  ELSE "T6_defensive"]

\* The record _compute_signals appends to the history for an item of
\* features.items(); of a record the model keeps the symbol and the score.
SignalRecord(f) == [symbol |-> f.symbol, score |-> _fusion(f.feat).score]

\* _compute_signals over features.items(), here the sequence of
\* [symbol, feat].  The answer is the signals dict and the history.
RECURSIVE _compute_signals(_, _, _)
_compute_signals(sigs, history, features) ==
    IF features = <<>> THEN [signals |-> sigs, history |-> history]
    ELSE LET f == Head(features)
             fused == _fusion(f.feat)
         IN  _compute_signals(Put(sigs, f.symbol, [signal_score |-> fused.score,
                                                   components |-> fused.breakdown]),
                              DequeAppend(history, SignalRecord(f), SignalHistoryMaxLen),
                              Tail(features))

\* self.signals.get(symbol, {})
get_signal(sigs, symbol) == IF symbol \in DOMAIN sigs THEN sigs[symbol] ELSE NoSignal

\* -------------------------------------------------------- Execution Engine
\* What EVEngine.calculate_ev_for_symbol hands to the cycle for one symbol:
\* the keys of the result the executor reads ("ev_entry" is not one of them).
EVResults ==
    { [EV |-> -100, p_win |-> 40, kelly_position |-> 0,  recommended_leverage |-> 2],
      [EV |-> -50,  p_win |-> 60, kelly_position |-> 0,  recommended_leverage |-> 2],
      [EV |-> 50,   p_win |-> 45, kelly_position |-> 5,  recommended_leverage |-> 20],
      [EV |-> 50,   p_win |-> 50, kelly_position |-> 5,  recommended_leverage |-> 20],
      [EV |-> 200,  p_win |-> 60, kelly_position |-> 15, recommended_leverage |-> 60] }

RECURSIVE MaxEvEntry(_, _)
MaxEvEntry(positions, keys) ==
    LET k == CHOOSE x \in keys : TRUE
        rest == keys \ {k}
    IN  IF rest = {} THEN positions[k].ev_entry
        ELSE LET m == MaxEvEntry(positions, rest)
             IN  IF positions[k].ev_entry > m THEN positions[k].ev_entry ELSE m

\* In the operators below `self` is the engine in the middle of a cycle: its
\* two dicts and its risk manager, with the history kept along
\* (last_exit, open_orders, entered, rejected, skipped, exits,
\* rotation_due) and whether an exception has left the loop (raised).  `acct` is what the accounting collaborator answers.
\* Variant: a cooldown entry never expires.
_in_cooldown_forever(self, symbol, t) == symbol \in DOMAIN self.cooldowns

\* Variant: the comparison with the cooldown end is inverted.
_in_cooldown_inverted(self, symbol, t) ==
    symbol \in DOMAIN self.cooldowns /\ t > self.cooldowns[symbol]

_in_cooldown(self, symbol, t) ==
    symbol \in DOMAIN self.cooldowns /\ t < self.cooldowns[symbol]

\* Variant: the breaker is queried but its answer is not used.
_check_risk_ev_only(self, symbol, ev, t) ==
    LET cb == check_circuit_breaker(self.risk_manager, t)
    IN  [self |-> [self EXCEPT !.risk_manager = cb.self], ret |-> ~(ev < EvFloor)]

_check_risk(self, symbol, ev, t) ==
    LET c == check_circuit_breaker(self.risk_manager, t) IN
    IF c.ret THEN [self |-> [self EXCEPT !.risk_manager = c.self], ret |-> FALSE]
    ELSE IF ev < EvFloor THEN [self |-> [self EXCEPT !.risk_manager = c.self], ret |-> FALSE]
    ELSE [self |-> [self EXCEPT !.risk_manager = c.self], ret |-> TRUE]

\* Variant: the exit does not return when the position is already gone.
_exit_position_again(self, symbol, reason, t) ==
    [self EXCEPT !.active_positions = Pop(@, symbol),
                 !.cooldowns = Put(@, symbol, t + CooldownMinutes),
                 !.last_exit = Put(@, symbol, t),
                 !.open_orders[symbol] = IF symbol \in DOMAIN self.active_positions
                                         THEN @ - 1 ELSE @,
                 !.exits = Append(@, <<symbol, reason>>)]

\* Variant: closing a position registers a losing trade with the risk
\* manager.
_exit_position_registers_loss(self, symbol, reason, t) ==
    IF symbol \notin DOMAIN self.active_positions THEN self
    ELSE [self EXCEPT !.active_positions = Pop(@, symbol),
                      !.cooldowns = Put(@, symbol, t + CooldownMinutes),
                      !.last_exit = Put(@, symbol, t),
                      !.open_orders[symbol] = @ - 1,
                      !.exits = Append(@, <<symbol, reason>>),
                      !.risk_manager = register_trade_result(@, -10, t)]

\* exits is the log: one line "[EXIT] symbol | Reason: reason" per exit made.
_exit_position(self, symbol, reason, t) ==
    IF symbol \notin DOMAIN self.active_positions THEN self
    ELSE [self EXCEPT !.active_positions = Pop(@, symbol),
                      !.cooldowns = Put(@, symbol, t + CooldownMinutes),
                      !.last_exit = Put(@, symbol, t),
                      !.open_orders[symbol] = @ - 1,
                      !.exits = Append(@, <<symbol, reason>>)]

\* Variant: BUY from a p_win of 0.5 on.
_enter_position_buy_at_half(self, symbol, ev_result, leverage, position_size, acct, t) ==
    LET balance == acct.available_balance
        order_notional == (balance * position_size * leverage) \div 100
        side == IF ev_result.p_win >= 50 THEN "BUY" ELSE "SELL"
    IN  [self EXCEPT
           !.active_positions = Put(@, symbol,
               [entry_time |-> t, entry_price |-> 0, leverage |-> leverage,
                notional |-> order_notional, ev_entry |-> ev_result.EV,
                direction |-> side, open |-> TRUE]),
           !.open_orders[symbol] = @ + 1,
           !.entered = @ \cup {symbol}]

_enter_position(self, symbol, ev_result, leverage, position_size, acct, t) ==
    LET balance == acct.available_balance
        order_notional == (balance * position_size * leverage) \div 100
        side == IF ev_result.p_win > 50 THEN "BUY" ELSE "SELL"
    IN  [self EXCEPT
           !.active_positions = Put(@, symbol,
               [entry_time |-> t, entry_price |-> 0, leverage |-> leverage,
                notional |-> order_notional, ev_entry |-> ev_result.EV,
                direction |-> side, open |-> TRUE]),
           !.open_orders[symbol] = @ + 1,
           !.entered = @ \cup {symbol}]

\* The four conditions are four separate `if`s: each calls _exit_position,
\* which returns at once when the position is already gone.
_maybe_exit(self, symbol, ev_result, profitable, t) ==
    LET pos == self.active_positions[symbol]
        current_ev == ev_result.EV
        time_held == t - pos.entry_time
        s1 == IF current_ev < 0 \/ ev_result.p_win < 50
              THEN _exit_position(self, symbol, "Signal invalid", t) ELSE self
        s2 == IF time_held > MaxHoldingMinutes
              THEN _exit_position(s1, symbol, "Time exceeded", t) ELSE s1
        s3 == IF time_held > NoProfitMinutes /\ ~profitable
              THEN _exit_position(s2, symbol, "No profit after 15m", t) ELSE s2
        s4 == IF 2 * current_ev < pos.ev_entry
              THEN _exit_position(s3, symbol, "EV decayed", t) ELSE s3
    IN  s4

\* Variant: the position's own entry EV is read from the position.
_maybe_rotate_own_entry(self, symbol, ev_result, acct, t) ==
    IF symbol \notin DOMAIN self.active_positions THEN [self EXCEPT !.raised = TRUE]
    ELSE IF ev_result.EV < self.active_positions[symbol].ev_entry THEN self
    ELSE IF 10 * ev_result.EV
              < 8 * MaxEvEntry(self.active_positions, DOMAIN self.active_positions)
         THEN self
    ELSE _enter_position(_exit_position(self, symbol, "Rotated for higher EV", t),
                         symbol, ev_result, ev_result.recommended_leverage,
                         ev_result.kelly_position, acct, t)

\* self.active_positions[symbol] (line 126) raises KeyError when _maybe_exit
\* closed the position; ev_result["ev_entry"] (line 128) raises KeyError when
\* the result has no such key.
_maybe_rotate(self, symbol, ev_result, acct, t) ==
    IF symbol \notin DOMAIN self.active_positions THEN [self EXCEPT !.raised = TRUE]
    ELSE IF "ev_entry" \notin DOMAIN ev_result THEN [self EXCEPT !.raised = TRUE]
    ELSE IF ev_result.EV < ev_result.ev_entry THEN self
    ELSE IF 10 * ev_result.EV
              < 8 * MaxEvEntry(self.active_positions, DOMAIN self.active_positions)
         THEN self
    ELSE _enter_position(_exit_position(self, symbol, "Rotated for higher EV", t),
                         symbol, ev_result, ev_result.recommended_leverage,
                         ev_result.kelly_position, acct, t)

\* Variant: the cycle does not look for an existing position.
HasPosition_never(self, symbol) == FALSE

\* symbol in self.active_positions
HasPosition(self, symbol) == symbol \in DOMAIN self.active_positions

\* The breaker as the claims speak of it: tripped and its cooldown not elapsed.
BreakerActive(risk, t) ==
    risk.circuit_breaker_active /\ t - risk.last_trigger_time <= BreakerCooldownMinutes

\* The rotation rule in the words of the policy: the symbol is still open,
\* and the new EV is at least its own entry EV and at least 80% of the
\* highest entry EV among the open positions.
RotationDue(positions, symbol, ev) ==
    /\ symbol \in DOMAIN positions
    /\ ev >= positions[symbol].ev_entry
    /\ \A k \in DOMAIN positions : 10 * ev >= 8 * positions[k].ev_entry

\* Variant: the entry is considered right after the exit of the same
\* symbol.
CycleStep_entry_after_exit(self, item, acct, t) ==
    LET symbol == item.symbol
        ev_result == item.ev_result
        ev == ev_result.EV
    IN  IF ~item.signal THEN self
        ELSE LET r == _check_risk(self, symbol, ev, t) IN
             IF ~r.ret
             THEN IF /\ BreakerActive(self.risk_manager, t)
                     /\ ev > BaseThreshold
                     /\ symbol \notin DOMAIN self.active_positions
                  THEN [r.self EXCEPT !.rejected = @ \cup {symbol},
                                      !.skipped = Append(@, symbol)]
                  ELSE [r.self EXCEPT !.skipped = Append(@, symbol)]
             ELSE IF _in_cooldown(r.self, symbol, t) THEN r.self
             ELSE IF HasPosition(r.self, symbol)
             THEN LET y == _maybe_exit(r.self, symbol, ev_result, item.profitable, t)
                      x == IF ~HasPosition(y, symbol) /\ ev > BaseThreshold
                           THEN _enter_position(y, symbol, ev_result,
                                                ev_result.recommended_leverage,
                                                ev_result.kelly_position, acct, t)
                           ELSE y
                  IN  _maybe_rotate(
                          IF RotationDue(x.active_positions, symbol, ev)
                          THEN [x EXCEPT !.rotation_due = @ \cup {symbol}] ELSE x,
                          symbol, ev_result, acct, t)
             ELSE IF ev > BaseThreshold
             THEN _enter_position(r.self, symbol, ev_result,
                                  ev_result.recommended_leverage,
                                  ev_result.kelly_position, acct, t)
             ELSE r.self

\* The body of the for loop for one item of the snapshot.  An item stands for
\* (symbol, state): whether the signal engine has a signal for the symbol,
\* the EV result computed from the state, and what _position_profitable
\* answers if asked.
CycleStep(self, item, acct, t) ==
    LET symbol == item.symbol
        ev_result == item.ev_result
        ev == ev_result.EV
    IN  IF ~item.signal THEN self
        ELSE LET r == _check_risk(self, symbol, ev, t) IN
             IF ~r.ret
             THEN IF /\ BreakerActive(self.risk_manager, t)
                     /\ ev > BaseThreshold
                     /\ symbol \notin DOMAIN self.active_positions
                  THEN [r.self EXCEPT !.rejected = @ \cup {symbol},
                                      !.skipped = Append(@, symbol)]
                  ELSE [r.self EXCEPT !.skipped = Append(@, symbol)]
             ELSE IF _in_cooldown(r.self, symbol, t) THEN r.self
             ELSE IF HasPosition(r.self, symbol)
             THEN LET x == _maybe_exit(r.self, symbol, ev_result, item.profitable, t)
                  IN  _maybe_rotate(
                          IF RotationDue(x.active_positions, symbol, ev)
                          THEN [x EXCEPT !.rotation_due = @ \cup {symbol}] ELSE x,
                          symbol, ev_result, acct, t)
             ELSE IF ev > BaseThreshold
             THEN _enter_position(r.self, symbol, ev_result,
                                  ev_result.recommended_leverage,
                                  ev_result.kelly_position, acct, t)
             ELSE r.self

\* for symbol, state in market_snapshot.items(): an exception leaves the loop.
RECURSIVE execute_cycle(_, _, _, _)
execute_cycle(self, market_snapshot, acct, t) ==
    IF market_snapshot = <<>> \/ self.raised THEN self
    ELSE execute_cycle(CycleStep(self, Head(market_snapshot), acct, t),
                       Tail(market_snapshot), acct, t)

\* ------------------------------------------------------------------ state
NoCall == [op |-> "none", ret |-> FALSE, args |-> <<>>]

\* cycle remembers of the last execute_cycle: the symbols it opened a
\* position for (entered); the flat symbols with an EV above the threshold it
\* skipped because the breaker was active (rejected); every symbol
\* _check_risk refused, in order (skipped); the symbols of the snapshot whose open position met an exit trigger at cycle time and is
\* still open after the cycle (left_open); the exits it logged, in order,
\* as <<symbol, reason>> (exits) and for each of them the exit conditions
\* that held for the position at cycle time (conditions); the open symbols
\* it did not exit and whose new EV met the rotation rule (rotation_due);
\* and, when it opened a position, whether the accounting values of that moment fail the
\* drawdown or the margin check.
NoCycle == [entered |-> {}, rejected |-> {}, skipped |-> <<>>, left_open |-> {},
            exits |-> <<>>, conditions |-> <<>>, rotation_due |-> {},
            drawdown_exceeded |-> FALSE, margin_low |-> FALSE]

\* hist remembers, of the register_trade_result calls so far:
\*   consec       how many losing calls in a row (no non-negative pnl between), up to 3
\*   t3           when the latest call that was the third or later of such a row was made
\*   t3_counter   whether loss_streak was >= 3 after that call
\*   t0           when loss_streak last became exactly 3
\*   loss_since   whether a losing call was registered after that
\*   rearmed_since  whether a check_circuit_breaker call after t0 re-armed the breaker
NoResult == [op |-> "none"]

NoHist == [consec |-> 0, t3 |-> NoTime, t3_counter |-> FALSE,
           t0 |-> NoTime, loss_since |-> FALSE, rearmed_since |-> FALSE]

InitTrading ==
    /\ now = 0
    /\ circuit_breaker_active = FALSE
    /\ last_trigger_time = NoTime
    /\ loss_streak = 0
    /\ drawdown_history = <<>>
    /\ active_positions = EmptyDict
    /\ cooldowns = EmptyDict
    /\ last_call = NoCall
    /\ cycle = NoCycle
    /\ last_exit = EmptyDict
    /\ open_orders = [s \in Symbols |-> 0]
    /\ hist = NoHist

\* No features yet, no signals, no cycle.  Of a cycle, running keeps the
\* generation of the snapshot it was called with, the symbols still to
\* handle, and for each symbol handled the generations of the market state
\* and of the signal its EV was calculated from.
InitLoops ==
    /\ features_gen = 0
    /\ signals_gen = 0
    /\ running = [snapshot |-> 0, pending |-> <<>>, view |-> <<>>]

Init ==
    /\ InitTrading
    /\ InitLoops
    /\ signals = EmptyDict
    /\ signal_history = <<>>
    /\ ev_history = <<>>
    /\ last_result = NoResult
    /\ signal_log = <<>>
    /\ ev_log = <<>>

\* The two findings of the pre-trade check, in the words of the risk policy:
\* the drawdown (peak - equity) / peak, 0 without a peak, strictly above the
\* daily limit; the margin ratio strictly below the health threshold.
DrawdownAboveLimit(acct) ==
    /\ acct.equity_peak > 0
    /\ (acct.equity_peak - acct.equity) * 100 > DailyDrawdownLimitPct * acct.equity_peak

MarginBelowThreshold(acct) == acct.margin_ratio < MarginHealthThreshold

\* ---------------------------------------------------------------- actions
\* Time passes between two handler invocations.
Tick(points) ==
    /\ \E t \in points : t > now /\ now' = t
    /\ UNCHANGED <<riskVars, execVars, last_call, hist, signalVars, evVars, loopVars>>

HistAfterRegister(pnl, after) ==
    IF pnl >= 0 THEN [hist EXCEPT !.consec = 0]
    ELSE LET c == IF hist.consec < 3 THEN hist.consec + 1 ELSE 3
             h1 == IF c >= 3
                   THEN [hist EXCEPT !.consec = c, !.t3 = now,
                                     !.t3_counter = after.loss_streak >= 3]
                   ELSE [hist EXCEPT !.consec = c]
         IN  IF after.loss_streak = 3
             THEN [h1 EXCEPT !.t0 = now, !.loss_since = FALSE, !.rearmed_since = FALSE]
             ELSE IF h1.t0 # NoTime THEN [h1 EXCEPT !.loss_since = TRUE] ELSE h1

HistAfterQuery(after) ==
    IF hist.t0 # NoTime /\ circuit_breaker_active /\ ~after.circuit_breaker_active
    THEN [hist EXCEPT !.rearmed_since = TRUE] ELSE hist

RegisterWith(pnl) ==
    /\ pnl < 0 => Len(drawdown_history) < MaxLosses
    /\ LET after == register_trade_result(RiskSelf, pnl, now) IN
       /\ SetRisk(after)
       /\ hist' = HistAfterRegister(pnl, after)
    /\ last_call' = [op |-> "register_trade_result", ret |-> FALSE, args |-> <<>>]
    /\ UNCHANGED <<now, execVars, signalVars, evVars, loopVars>>

RegisterTradeResult == \E pnl \in PnlValues : RegisterWith(pnl)

PreTradeCheckWith(ev, acct) ==
    /\ LET r == pre_trade_check(RiskSelf, ev, acct, now) IN
       /\ SetRisk(r.self)
       /\ last_call' = [op |-> "pre_trade_check", ret |-> r.ret, args |-> <<ev, acct>>]
    /\ UNCHANGED <<now, execVars, hist, signalVars, evVars, loopVars>>

PreTradeCheck(evs, accts) == \E ev \in evs, acct \in accts : PreTradeCheckWith(ev, acct)

CheckCircuitBreaker ==
    /\ LET r == check_circuit_breaker(RiskSelf, now) IN
       /\ SetRisk(r.self)
       /\ last_call' = [op |-> "check_circuit_breaker", ret |-> r.ret, args |-> <<>>]
       /\ hist' = HistAfterQuery(r.self)
    /\ UNCHANGED <<now, execVars, signalVars, evVars, loopVars>>

\* _position_profitable is random.choice([True, False]); it is asked only
\* for an open position held for more than 15 minutes.
ProfitChoices(symbol) ==
    IF symbol \in DOMAIN active_positions
       /\ now - active_positions[symbol].entry_time > NoProfitMinutes
    THEN BOOLEAN ELSE {TRUE}

Items(symbol) ==
    { [symbol |-> symbol, signal |-> FALSE,
       ev_result |-> CHOOSE r \in EVResults : r.EV = 200, profitable |-> TRUE] }
    \cup { [symbol |-> symbol, signal |-> TRUE, ev_result |-> r, profitable |-> b] :
           r \in EVResults, b \in ProfitChoices(symbol) }

\* market_snapshot is the features dict, filled in the order of the ingestion
\* manager's symbol list, with the symbols that have data: one symbol, or
\* one or two.
SingleSnapshots == {<<i>> : i \in Items("BTCUSDT")}

PairSnapshots ==
    {<<i>> : i \in Items("BTCUSDT")} \cup {<<j>> : j \in Items("ETHUSDT")}
    \cup {<<i, j>> : i \in Items("BTCUSDT"), j \in Items("ETHUSDT")}

\* The accounting values a cycle can meet; only a cycle that may open a
\* position asks for them.
CycleAccounting(snapshot) ==
    IF \E i \in 1..Len(snapshot) :
          snapshot[i].signal /\ snapshot[i].ev_result.EV > BaseThreshold
    THEN {a \in AccountingStates : a.equity_peak = 100 /\ a.equity # 90}
    ELSE {a \in AccountingStates : a.equity = 100 /\ a.margin_ratio = 50}

Range(seq) == {seq[i] : i \in 1..Len(seq)}

\* The exit conditions, by the letters of the exit policy, that hold at
\* time t for the item's symbol, open in positions:
\* (a) signal invalid, (b) time exceeded, (c) no profit after 15m, (d) EV
\* decayed.
ExitConditions(positions, item, t) ==
    LET pos == positions[item.symbol] IN
    {c \in {"a", "b", "c", "d"} :
        \/ c = "a" /\ (item.ev_result.EV < 0 \/ item.ev_result.p_win < 50)
        \/ c = "b" /\ t - pos.entry_time > 1440
        \/ c = "c" /\ t - pos.entry_time > 15 /\ ~item.profitable
        \/ c = "d" /\ 2 * item.ev_result.EV < pos.ev_entry}

\* Whether an exit trigger of _maybe_exit holds at time t for the item's
\* symbol, given the positions open when the cycle starts.
ExitDue(positions, item, t) ==
    /\ item.symbol \in DOMAIN positions
    /\ LET pos == positions[item.symbol] IN
       \/ t - pos.entry_time > MaxHoldingMinutes
       \/ t - pos.entry_time > NoProfitMinutes /\ ~item.profitable
       \/ item.signal /\ (item.ev_result.EV < 0 \/ item.ev_result.p_win < 50
                          \/ 2 * item.ev_result.EV < pos.ev_entry)

\* The engine as a cycle finds it.
EngineSelf ==
    [active_positions |-> active_positions, cooldowns |-> cooldowns,
     risk_manager |-> RiskSelf, last_exit |-> last_exit,
     open_orders |-> open_orders, entered |-> {}, rejected |-> {}, skipped |-> <<>>,
     exits |-> <<>>, rotation_due |-> {}, raised |-> FALSE]

\* What execute_cycle(market_snapshot) does to the engine and the risk
\* manager, with the accounting answering acct.
CycleEffects(snapshot, acct) ==
    \E self \in { execute_cycle(EngineSelf, snapshot, acct, now) } :
        /\ active_positions' = self.active_positions
        /\ cooldowns' = self.cooldowns
        /\ last_exit' = self.last_exit
        /\ open_orders' = self.open_orders
        /\ SetRisk(self.risk_manager)
        /\ cycle' = [entered |-> self.entered,
                     rejected |-> self.rejected,
                     skipped |-> self.skipped,
                     exits |-> self.exits,
                     rotation_due |-> self.rotation_due,
                     conditions |-> [e \in 1..Len(self.exits) |->
                         ExitConditions(active_positions,
                             CHOOSE i \in Range(snapshot) : i.symbol = self.exits[e][1],
                             now)],
                     left_open |-> { snapshot[i].symbol : i \in
                                       { j \in 1..Len(snapshot) :
                                           /\ ExitDue(active_positions, snapshot[j], now)
                                           /\ snapshot[j].symbol \in DOMAIN self.active_positions } },
                     drawdown_exceeded |-> self.entered # {} /\ DrawdownAboveLimit(acct),
                     margin_low |-> self.entered # {} /\ MarginBelowThreshold(acct)]
        /\ last_call' = [op |-> "execute_cycle", ret |-> self.raised, args |-> <<>>]
        /\ hist' = HistAfterQuery(self.risk_manager)

\* execute_cycle(market_snapshot) over EV results given with the snapshot.
ExecuteCycleOn(snapshot, acct) ==
    /\ CycleEffects(snapshot, acct)
    /\ UNCHANGED <<now, signalVars, evVars, loopVars>>

ExecuteCycle(snapshots) ==
    \E snapshot \in snapshots :
        \E acct \in CycleAccounting(snapshot) : ExecuteCycleOn(snapshot, acct)

\* Market states: the features calculate_ev_for_symbol reads, in units of
\* 1/10000.  A missing key takes the estimator's default.
ExampleState ==
    [ATR |-> 100, momentum |-> 10000, liquidity_score |-> 10000, volatility |-> 10000,
     depth_score |-> 10000, slippage |-> 100, funding_rate |-> 0]

BullState ==
    [ATR |-> 5000, momentum |-> 30000, liquidity_score |-> 20000, volatility |-> 0,
     depth_score |-> 20000, slippage |-> 0, funding_rate |-> -100,
     trend_consistency |-> 10000]

BearState ==
    [ATR |-> 5000, momentum |-> -30000, liquidity_score |-> 20000, volatility |-> 20000,
     depth_score |-> 5000, slippage |-> 100, funding_rate |-> 100]

NoDepthState == [depth_score |-> 0]

QuietState(atr) == [ATR |-> atr, volatility |-> 0, slippage |-> 0]

MarketStates ==
    {EmptyDict, ExampleState, BullState, BearState, NoDepthState}
        \cup {QuietState(atr) : atr \in {0, 300, 1000, 2000}}

HistoryStates == {EmptyDict, BullState}

\* Fused scores, in units of 1/10000.
Scores == {-10000, 0, 5000, 10000, 20000}

\* The features _fusion reads.
FeatureKeys ==
    {"price_velocity", "volume_acceleration", "liquidation_heat", "order_imbalance",
     "funding_bias", "macro_sentiment_score", "onchain_score", "etf_flow_score",
     "social_sentiment_score"}

\* Feature dicts of a symbol, in units of 1/10000.
BullFeat ==
    [price_velocity |-> 10, volume_acceleration |-> 20000, liquidation_heat |-> 50000,
     order_imbalance |-> -4000, funding_bias |-> 1, macro_sentiment_score |-> 5000,
     onchain_score |-> 4000, etf_flow_score |-> 2000, social_sentiment_score |-> 6000]

BearFeat ==
    [price_velocity |-> -10, volume_acceleration |-> 80000, liquidation_heat |-> 200000,
     order_imbalance |-> 15000, funding_bias |-> -1, macro_sentiment_score |-> -5000,
     onchain_score |-> -4000, etf_flow_score |-> -2000, social_sentiment_score |-> -6000]

\* feat without the features of missing.
Without(feat, missing) == [k \in DOMAIN feat \ missing |-> feat[k]]

\* What get_features() hands to _compute_signals, in the order of items().
Feature(symbol, feat) == [symbol |-> symbol, feat |-> feat]

FeatureSets ==
    {<<Feature("BTCUSDT", BullFeat)>>,
     <<Feature("BTCUSDT", BullFeat), Feature("ETHUSDT", EmptyDict)>>}

\* Feature mappings with features missing: none, one, some, all.
FusionFeatureSets ==
    {<<Feature("BTCUSDT", BullFeat)>>,
     <<Feature("BTCUSDT", BearFeat)>>,
     <<Feature("BTCUSDT", Without(BullFeat, {"funding_bias"}))>>,
     <<Feature("BTCUSDT", Without(BearFeat, {"price_velocity", "order_imbalance",
                                             "macro_sentiment_score"}))>>,
     <<Feature("BTCUSDT", Without(BullFeat, FeatureKeys \ {"price_velocity"})),
       Feature("ETHUSDT", EmptyDict)>>}

\* self.signals = self._compute_signals(features), as long as the log of
\* the run has room for the records of the call.
ComputeSignalsOn(features) ==
    /\ Len(signal_log) + Len(features) <= MaxRecords
    /\ \E r \in {_compute_signals(EmptyDict, signal_history, features)} :
           /\ signals' = r.signals
           /\ signal_history' = r.history
    /\ signal_log' = signal_log \o [i \in 1..Len(features) |-> SignalRecord(features[i])]
    /\ UNCHANGED <<tradingVars, evVars, loopVars>>

ComputeSignals(featureSets) == \E features \in featureSets : ComputeSignalsOn(features)

\* calculate_ev_for_symbol(symbol, market_state), at most maxCalls of them
\* recorded in the history.  draws are the leverages the random generator
\* is let to draw; last_result holds the result with the leverage drawn.
CalculateEv(symbols, states, draws, maxCalls) ==
    \E symbol \in symbols, state \in states :
        \E r \in {calculate_ev_for_symbol(ev_history, symbol,
                                          get_signal(signals, symbol), state)} :
            /\ r.result # <<>> => Len(ev_log) < maxCalls
            /\ ev_history' = r.history
            /\ ev_log' = IF r.result = <<>> THEN ev_log
                          ELSE Append(ev_log, [symbol |-> symbol, win |-> r.result.EV > 0])
            /\ \E result \in (IF r.result = <<>> THEN {<<>>}
                               ELSE {[r.result EXCEPT !.recommended_leverage = leverage] :
                                        leverage \in r.result.recommended_leverage \cap draws}) :
                   last_result' = [op |-> "calculate_ev_for_symbol",
                                   args |-> <<symbol, state>>,
                                   raised |-> r.raised, result |-> result]
            /\ UNCHANGED <<tradingVars, signalVars, loopVars>>

\* EVs around every tier boundary, in units of 1/100000000.
EvProbes ==
    {35000000, 20000000, 10000000, 3000000, -2000000, 34999999, 19999999, 9999999,
     2999999, -2000001, 100000000, -105660000}

\* tier = self._classify_ev(ev); optimal_leverage = self._recommend_leverage(ev)
ClassifyAndRecommend ==
    \E ev \in EvProbes :
        \E leverage \in _recommend_leverage(ev) :
            /\ last_result' = [op |-> "_classify_ev", args |-> <<ev>>, raised |-> FALSE,
                                result |-> [tier |-> _classify_ev(ev),
                                            recommended_leverage |-> leverage]]
            /\ UNCHANGED <<tradingVars, signalVars, ev_history, ev_log, loopVars>>

\* Probabilities for the EV formula alone.
ProbabilityProbes == {100, 5000, 9900}

\* G, L, fees, ev and tier as calculate_ev_for_symbol computes them, for a
\* probability given rather than estimated.
ExpectedValue ==
    \E p \in ProbabilityProbes, state \in MarketStates :
        \E L \in {_estimate_loss(state)} :
            /\ last_result' =
                   [op |-> "expected_value", args |-> <<p, state>>, raised |-> L.raised,
                    result |->
                        IF L.raised THEN <<>>
                        ELSE LET G == _estimate_gain(state)
                                 fees == _estimate_fees(state)
                                 ev == expected_value(p, G, L.value, fees)
                             IN  [p_win |-> p, G |-> G, L |-> L.value, fees |-> fees,
                                  EV |-> ev, tier |-> _classify_ev(ev)]]
            /\ UNCHANGED <<tradingVars, signalVars, ev_history, ev_log, loopVars>>

\* The engine trading one symbol, with the risk manager it consults: the
\* cycle, the clock, and the risk manager's pre-trade check, which trips the
\* breaker.
Next ==
    \/ Tick(CycleTimePoints)
    \/ ExecuteCycle(SingleSnapshots)
    \/ PreTradeCheck({200}, DrawdownStates)

Spec == Init /\ [][Next]_vars

\* The engine trading two symbols, at fewer instants.
NextPair ==
    \/ Tick(PairTimePoints)
    \/ ExecuteCycle(PairSnapshots)
    \/ PreTradeCheck({200}, DrawdownStates)

SpecPair == Init /\ [][NextPair]_vars

\* The risk manager alone, all its operations at finer instants.  To it a
\* cycle is a run of check_circuit_breaker calls at one instant.
NextRisk ==
    \/ Tick(RiskTimePoints)
    \/ RegisterTradeResult
    \/ PreTradeCheck(EvArgs, AccountingStates)
    \/ CheckCircuitBreaker

SpecRisk == Init /\ [][NextRisk]_vars

\* What the accounting collaborator answers to recovery_mode: no drawdown,
\* both sides of 20%, a gain, a total loss, and no peak yet.
RecoveryAccounting ==
    { [equity |-> e, equity_peak |-> 100] : e \in {0, 79, 80, 81, 100, 120} }
        \cup { [equity |-> 0, equity_peak |-> 0], [equity |-> 50, equity_peak |-> -10] }

RecoveryMode ==
    \E acct \in RecoveryAccounting :
        /\ last_call' = [op |-> "recovery_mode", ret |-> recovery_mode(acct),
                          args |-> <<acct>>]
        /\ UNCHANGED <<now, riskVars, execVars, hist, signalVars, evVars, loopVars>>

\* The risk manager registering results and asked for its recovery mode.
NextRecovery ==
    \/ RegisterTradeResult
    \/ RecoveryMode

SpecRecovery == Init /\ [][NextRecovery]_vars

\* Entries of either direction with two balances: EV results above the
\* entry threshold with p_win above, at and below 0.5, and one that closes
\* any position.
EntryResults ==
    { [EV |-> 200,  p_win |-> 60, kelly_position |-> 15, recommended_leverage |-> 60],
      [EV |-> 100,  p_win |-> 50, kelly_position |-> 10, recommended_leverage |-> 30],
      [EV |-> 60,   p_win |-> 40, kelly_position |-> 5,  recommended_leverage |-> 12],
      [EV |-> -20,  p_win |-> 40, kelly_position |-> 0,  recommended_leverage |-> 8] }

EntrySnapshots ==
    { <<[symbol |-> "BTCUSDT", signal |-> TRUE, ev_result |-> r, profitable |-> b]>> :
        r \in EntryResults, b \in BOOLEAN }

EntryAccounting ==
    { [equity |-> 100, equity_peak |-> 100, margin_ratio |-> 50, available_balance |-> b] :
        b \in {500, 1000} }

EntryCycle ==
    \E snapshot \in EntrySnapshots : \E acct \in EntryAccounting :
        ExecuteCycleOn(snapshot, acct)

NextEntry ==
    \/ Tick(CycleTimePoints)
    \/ EntryCycle

SpecEntry == Init /\ [][NextEntry]_vars

\* The loops are coroutines of one event loop: another task runs only while
\* the running one is suspended at an await, and execute_cycle, a plain
\* function, has none.
\* Variant: a task can run at any moment.
AtSuspensionPoint_preemptive == TRUE

AtSuspensionPoint == running.pending = <<>>

\* self.features = self._compute_features()
FeatureLoopStep ==
    /\ AtSuspensionPoint
    /\ features_gen < MaxGenerations
    /\ features_gen' = features_gen + 1
    /\ UNCHANGED <<tradingVars, signalVars, evVars, signals_gen, running>>

\* features = self.feature_source.get_features();
\* self.signals = self._compute_signals(features)
SignalLoopStep ==
    /\ AtSuspensionPoint
    /\ signals_gen' = features_gen
    /\ UNCHANGED <<tradingVars, signalVars, evVars, features_gen, running>>

\* The execution loop calls execute_cycle with the current features as the
\* market snapshot.
StartCycle ==
    /\ AtSuspensionPoint
    /\ running' = [snapshot |-> features_gen, pending |-> <<"BTCUSDT", "ETHUSDT">>,
                   view |-> <<>>]
    /\ UNCHANGED <<tradingVars, signalVars, evVars, features_gen, signals_gen>>

\* One turn of the for loop: calculate_ev_for_symbol(symbol, state) with the
\* state of the snapshot and the signal get_signal(symbol) finds now.
CycleSymbolStep ==
    /\ running.pending # <<>>
    /\ running' = [running EXCEPT
                      !.pending = Tail(@),
                      !.view = Append(@, [symbol |-> Head(running.pending),
                                          state |-> running.snapshot,
                                          signal |-> signals_gen])]
    /\ UNCHANGED <<tradingVars, signalVars, evVars, features_gen, signals_gen>>

NextLoops ==
    \/ FeatureLoopStep
    \/ SignalLoopStep
    \/ StartCycle
    \/ CycleSymbolStep

SpecLoops == Init /\ [][NextLoops]_vars

\* The two histories: signals computed and EVs calculated over and over.
NextHistory ==
    \/ ComputeSignals(FeatureSets)
    \/ CalculateEv(Symbols, HistoryStates, {1, 4, 90, 119}, MaxRecords)

SpecHistory == Init /\ [][NextHistory]_vars

\* The EV engine with any signal and any history it can hold at the start.
Win(symbol) == [symbol |-> symbol, win |-> TRUE]
Loss(symbol) == [symbol |-> symbol, win |-> FALSE]

InitialHistories ==
    {<<>>, <<Win("BTCUSDT")>>, <<Loss("BTCUSDT"), Loss("BTCUSDT")>>,
     <<Win("ETHUSDT"), Win("BTCUSDT"), Loss("BTCUSDT")>>}

InitialSignals ==
    {EmptyDict} \cup {Put(EmptyDict, "BTCUSDT", [signal_score |-> s]) : s \in Scores}

InitEV ==
    /\ InitTrading
    /\ InitLoops
    /\ signals \in InitialSignals
    /\ signal_history = <<>>
    /\ signal_log = <<>>
    /\ ev_history \in InitialHistories
    /\ ev_log = ev_history
    /\ last_result = NoResult

NextEV ==
    \/ CalculateEv({"BTCUSDT"}, MarketStates, 1..120, TradeWindow + 1)
    \/ ExpectedValue

SpecEV == InitEV /\ [][NextEV]_vars

\* Win probabilities the sigmoid gives, in units of 1/10000.
SigmoidProbes == {0, 2500, 5000, 7311, 9526, Unit}

\* The features _ev_classify reads: volume accelerations that, with a win
\* probability of 1, put the EV on a tier threshold, just under it, and
\* away from it; the volatility missing, zero or 0.5.
ClassifyFeats ==
    {[volume_acceleration |-> va] :
        va \in {-12968, -12970, -15968, -15970, -17968, -17970, -19368, -19370,
                -20368, -20370, 0, 20000}}
    \cup {[volume_acceleration |-> va, volatility |-> v] :
            va \in {-12968, -12970, -15968, -15970, -17968, -17970, -19368, -19370,
                    -20368, -20370, 0, 20000},
            v \in {0, 5000}}

\* ev, tier = self._ev_classify(weighted_score, feat)
EvClassify ==
    \E p \in SigmoidProbes :
        \E feat \in ClassifyFeats :
            /\ last_result' = [op |-> "_ev_classify", args |-> <<p, feat>>,
                                raised |-> FALSE, result |-> _ev_classify(p, feat)]
            /\ UNCHANGED <<tradingVars, signalVars, ev_history, ev_log, loopVars>>

\* The tier and the leverage of an EV, and the tier the signal engine
\* gives.
NextTier == ClassifyAndRecommend \/ EvClassify

SpecTier == Init /\ [][NextTier]_vars

\* Cycles between the trade results the risk manager is told of.
SpecFrame ==
    Init /\ [][Tick(PairTimePoints) \/ RegisterTradeResult
                  \/ ExecuteCycle(SingleSnapshots)]_vars

\* A market state with a slippage in the trader's favour, -0.2.
RebateState == [volatility |-> 0, slippage |-> -2000]

\* The EV result as the execution engine's operators take it: EV in
\* thousandths, p_win and kelly_position in hundredths.
ExecutorResult(result) ==
    [EV |-> result.EV \div 100000, p_win |-> result.p_win \div 100,
     kelly_position |-> result.kelly_position \div 100,
     recommended_leverage |-> result.recommended_leverage]

\* execute_cycle({"BTCUSDT": state}) with the EV engine behind it: the
\* engine's result for the state, with a leverage of draws, is what the
\* cycle acts on.
EngineCycle(states, draws) ==
    \E state \in states :
        \E r \in {calculate_ev_for_symbol(ev_history, "BTCUSDT",
                                          get_signal(signals, "BTCUSDT"), state)} :
            /\ ~r.raised
            /\ r.result # <<>>
            /\ Len(ev_log) <= TradeWindow
            /\ ev_history' = r.history
            /\ ev_log' = Append(ev_log, [symbol |-> "BTCUSDT", win |-> r.result.EV > 0])
            /\ \E leverage \in r.result.recommended_leverage \cap draws :
                   \E result \in {[r.result EXCEPT !.recommended_leverage = leverage]} :
                       /\ last_result' = [op |-> "calculate_ev_for_symbol",
                                           args |-> <<"BTCUSDT", state>>,
                                           raised |-> FALSE, result |-> result]
                       /\ \E acct \in EntryAccounting :
                              CycleEffects(<<[symbol |-> "BTCUSDT", signal |-> TRUE,
                                              ev_result |-> ExecutorResult(result),
                                              profitable |-> TRUE]>>, acct)
            /\ UNCHANGED <<now, signalVars, loopVars>>

\* Cycles on the EV engine's own results.
SpecKelly ==
    InitEV /\ [][EngineCycle((MarketStates \ {NoDepthState}) \cup {RebateState},
                             {1, 5, 10, 20, 50, 90, 119})]_vars

\* The signal loop over feature mappings with features missing.
SpecFusion == Init /\ [][ComputeSignals(FusionFeatureSets)]_vars

\* ------------------------------------------------------------------ claims
\* C1: active_positions holds at most one position per symbol, and no entry
\* order is sent for a symbol that already has one: per symbol, the orders
\* sent and not yet closed by an exit number 1 if the symbol has a position
\* and 0 if it has none.
C1_OnePositionPerSymbol ==
    /\ DOMAIN active_positions \subseteq Symbols
    /\ \A s \in Symbols :
          open_orders[s] = IF s \in DOMAIN active_positions THEN 1 ELSE 0

\* Both symbols are open, and the last cycle met an open symbol with a
\* result that passed the risk check and no exit trigger (it reached the
\* rotation step) without sending a second order.
C1_Witness ==
    /\ DOMAIN active_positions = Symbols
    /\ last_call.op = "execute_cycle" /\ last_call.ret
    /\ \E s \in Symbols : active_positions[s].entry_time < now

\* C2: once a position of a symbol was exited at time x, a position open
\* for that symbol was entered at x + 5 minutes or later.
C2_NoReentryBeforeCooldown ==
    \A s \in DOMAIN active_positions :
        s \in DOMAIN last_exit => active_positions[s].entry_time >= last_exit[s] + 5

\* A symbol re-entered at the very end of its cooldown.
C2_Witness ==
    \E s \in DOMAIN active_positions :
        /\ s \in DOMAIN last_exit
        /\ active_positions[s].entry_time = last_exit[s] + 5

\* C3: a step taken while the breaker is active (tripped, and 180 minutes
\* not yet elapsed since the trip) opens no position: every position after
\* the step was there, unchanged, before it.
C3_NoEntryWhileBreakerActive ==
    [][BreakerActive(RiskSelf, now) =>
         \A s \in DOMAIN active_positions' :
             s \in DOMAIN active_positions /\ active_positions'[s] = active_positions[s]]_vars

\* The last cycle ran with the breaker active and skipped a flat symbol
\* whose EV was above the entry threshold.
C3_Witness ==
    /\ cycle.rejected # {}
    /\ last_call.op = "execute_cycle"
    /\ BreakerActive(RiskSelf, now)

\* C4: once the third (or a later) of a row of losing register_trade_result
\* calls was made at trigger_time, check_circuit_breaker returns true at
\* every instant up to trigger_time + 180 minutes, whatever other Risk
\* Manager operations are called; and a registration that leaves the row of
\* losses shorter than 3 does not trip an armed breaker.  As claimed, for
\* all rows of three losing calls.
C4_TrippedAfterThreeLosses ==
    [][ /\ (hist'.t3 # NoTime /\ now' <= hist'.t3 + 180
              => check_circuit_breaker(RiskSelf', now').ret)
        /\ (RegisterTradeResult /\ hist'.consec < 3 /\ ~circuit_breaker_active
              => ~circuit_breaker_active') ]_vars

\* C4 for the rows of losses that bring the consecutive-loss counter to 3
\* or more, that is with no re-arming of the breaker inside the row.
C4_TrippedAfterCounterReachesThree ==
    [][ /\ (hist'.t3 # NoTime /\ hist'.t3_counter /\ now' <= hist'.t3 + 180
              => check_circuit_breaker(RiskSelf', now').ret)
        /\ (RegisterTradeResult /\ hist'.consec < 3 /\ ~circuit_breaker_active
              => ~circuit_breaker_active') ]_vars

\* A query made exactly 180 minutes after the third loss answered true.
C4_Witness ==
    /\ hist.t3 # NoTime /\ hist.t3_counter
    /\ now = hist.t3 + 180
    /\ last_call.op = "check_circuit_breaker" /\ last_call.ret

C6_RearmOnlyByQuery ==
    [][ /\ (circuit_breaker_active /\ ~circuit_breaker_active'
              => /\ CheckCircuitBreaker
                 /\ now - last_trigger_time > 180
                 /\ loss_streak' = 0)
        /\ (circuit_breaker_active /\ PreTradeCheck(EvArgs, AccountingStates)
              => circuit_breaker_active' /\ ~last_call'.ret)
        /\ (circuit_breaker_active /\ RegisterTradeResult => circuit_breaker_active')
        /\ ((\E pnl \in PnlValues : pnl >= 0 /\ RegisterWith(pnl))
              => loss_streak' = 0 /\ circuit_breaker_active' = circuit_breaker_active)
      ]_vars

\* pre_trade_check rejected with the flag still set more than 180 minutes
\* after the trip.
C6_Witness ==
    /\ circuit_breaker_active
    /\ now - last_trigger_time > 180
    /\ last_call.op = "pre_trade_check" /\ ~last_call.ret

\* The three events that trip an armed breaker, as a step shows them.  The
\* drawdown check runs when the EV passes the floor, the margin check when
\* the drawdown check passes.
TripByDrawdown ==
    /\ PreTradeCheck(EvArgs, AccountingStates)
    /\ last_call'.args[1] >= -50
    /\ DrawdownAboveLimit(last_call'.args[2])

TripByMargin ==
    /\ PreTradeCheck(EvArgs, AccountingStates)
    /\ last_call'.args[1] >= -50
    /\ ~DrawdownAboveLimit(last_call'.args[2])
    /\ MarginBelowThreshold(last_call'.args[2])

TripByStreak == RegisterTradeResult /\ loss_streak' = 3

\* C7: a step that takes the breaker from armed to tripped is a drawdown
\* check finding the drawdown strictly above the limit, a margin check
\* finding the ratio strictly below the threshold, or a registration that
\* brings the counter to 3, and it records the time of the step as trip
\* time; and each of the three, met by an armed breaker, trips it.
C7_TripExactlyOnThreeEvents ==
    [][ /\ (~circuit_breaker_active /\ circuit_breaker_active'
              => /\ TripByDrawdown \/ TripByMargin \/ TripByStreak
                 /\ last_trigger_time' = now)
        /\ (~circuit_breaker_active /\ (TripByDrawdown \/ TripByMargin \/ TripByStreak)
              => circuit_breaker_active' /\ last_trigger_time' = now)
      ]_vars

\* An armed breaker with no loss counted was tripped by the margin check,
\* the drawdown check having passed.
C7_Witness ==
    /\ circuit_breaker_active /\ last_trigger_time = now
    /\ last_call.op = "pre_trade_check" /\ ~last_call.ret
    /\ ~DrawdownAboveLimit(last_call.args[2])
    /\ MarginBelowThreshold(last_call.args[2])
    /\ loss_streak = 0 /\ hist.consec = 0
    /\ now > 0

\* C8: for every EV and every accounting answer, pre_trade_check returns
\* false exactly if the breaker is tripped, the EV is below -0.05, the
\* drawdown is above the limit or the margin ratio below the threshold; and
\* it changes the Risk Manager exactly if the breaker is armed, the EV is
\* not below -0.05 and one of the two checks fails, and then by tripping
\* the breaker at the time of the call.
C8_PreTradeCheckContract ==
    \A ev \in EvArgs, acct \in AccountingStates :
        LET r == pre_trade_check(RiskSelf, ev, acct, now)
            fails == DrawdownAboveLimit(acct) \/ MarginBelowThreshold(acct)
        IN  /\ r.ret = ~(circuit_breaker_active \/ ev < -50 \/ fails)
            /\ r.self = IF ~circuit_breaker_active /\ ev >= -50 /\ fails
                        THEN [RiskSelf EXCEPT !.circuit_breaker_active = TRUE,
                                              !.last_trigger_time = now]
                        ELSE RiskSelf

\* pre_trade_check, called with an EV of exactly -0.05 and a drawdown above
\* the limit, met an armed breaker with two losses counted and tripped it.
C8_Witness ==
    /\ last_call.op = "pre_trade_check" /\ ~last_call.ret
    /\ last_call.args[1] = -50 /\ DrawdownAboveLimit(last_call.args[2])
    /\ circuit_breaker_active /\ last_trigger_time = now
    /\ loss_streak = 2

\* C9: every symbol the last cycle opened a position for had an EV strictly
\* above the entry threshold and not below -0.05, the accounting values of
\* that cycle pass the drawdown and the margin check of the pre-trade
\* check, and the symbol was out of its cooldown.  (That the breaker was
\* not tripped is C3.)
C9_EntryOnlyAfterPreTradeCheck ==
    \A s \in cycle.entered :
        /\ s \in DOMAIN active_positions
        /\ active_positions[s].ev_entry > BaseThreshold
        /\ active_positions[s].ev_entry >= -50
        /\ ~cycle.drawdown_exceeded
        /\ ~cycle.margin_low
        /\ s \in DOMAIN last_exit => active_positions[s].entry_time >= last_exit[s] + 5

\* C10: no position of a symbol of the last cycle's snapshot that met an
\* exit trigger at cycle time is still open after the cycle.
C10_ExitEvaluatedEveryCycle == cycle.left_open = {}

\* The reason the exit policy gives for a set of conditions that hold.
FirstCondition(cs) ==
    IF "a" \in cs THEN "Signal invalid"
    ELSE IF "b" \in cs THEN "Time exceeded"
    ELSE IF "c" \in cs THEN "No profit after 15m"
    ELSE "EV decayed"

\* C11: every exit the last cycle logged has the reason of the first of the
\* conditions (a), (b), (c), (d) that held for the position; no symbol was
\* exited twice in the cycle; and the cooldown of an exited symbol ends 5
\* minutes after its one exit.
C11_FirstMatchWins ==
    /\ \A e \in 1..Len(cycle.exits) :
          /\ cycle.conditions[e] # {}
          /\ cycle.exits[e][2] = FirstCondition(cycle.conditions[e])
          /\ \A f \in 1..Len(cycle.exits) :
                f # e => cycle.exits[f][1] # cycle.exits[e][1]
    /\ \A s \in DOMAIN last_exit :
          s \in DOMAIN cooldowns /\ cooldowns[s] = last_exit[s] + 5

\* A position for which both (c) and (d) held, and not (a) or (b), was
\* exited once, for "No profit after 15m".
C11_Witness ==
    /\ Len(cycle.exits) = 1
    /\ cycle.conditions[1] = {"c", "d"}
    /\ cycle.exits[1][2] = "No profit after 15m"
    /\ cycle.exits[1][1] \notin DOMAIN active_positions

\* C12: the cooldown of a symbol ends 5 minutes after its last exit, and
\* nothing but time ends it: for a flat symbol with the breaker armed, an
\* entry attempt (a cycle item with an EV above the threshold) made before
\* exit time + 5 leaves the symbol flat, and one made after exit time + 5
\* opens a position.
C12_CooldownFromExit ==
    \A s \in DOMAIN last_exit :
        /\ s \in DOMAIN cooldowns /\ cooldowns[s] = last_exit[s] + 5
        /\ s \notin DOMAIN active_positions /\ ~circuit_breaker_active =>
              \A item \in Items(s), acct \in AccountingStates :
                  item.signal /\ item.ev_result.EV > BaseThreshold =>
                      LET after == CycleStep(EngineSelf, item, acct, now) IN
                      /\ now < last_exit[s] + 5 => s \notin DOMAIN after.active_positions
                      /\ now > last_exit[s] + 5 =>
                            /\ s \in DOMAIN after.active_positions
                            /\ after.active_positions[s].entry_time = now

\* A symbol exited at 16, its cooldown running until 21, was entered again
\* at 22.
C12_Witness ==
    \E s \in DOMAIN active_positions :
        /\ s \in DOMAIN last_exit /\ last_exit[s] = 16
        /\ cooldowns[s] = 21
        /\ active_positions[s].entry_time = 22
        /\ s \in cycle.entered

\* C13: every open position the last cycle did not exit and whose new EV
\* met both rotation conditions was closed for "Rotated for higher EV" and
\* reopened in that cycle with the new EV as entry EV; and a position the
\* cycle closed for rotation met both conditions.
C13_RotationReopens ==
    /\ \A s \in cycle.rotation_due :
          /\ <<s, "Rotated for higher EV">> \in Range(cycle.exits)
          /\ s \in cycle.entered
          /\ s \in DOMAIN active_positions
    /\ \A e \in 1..Len(cycle.exits) :
          cycle.exits[e][2] = "Rotated for higher EV"
              => cycle.exits[e][1] \in cycle.rotation_due

\* C14: in every state with exactly one open position, _maybe_rotate called
\* for that position with any EV result closes no position and opens none.
C14_NoRotationOfSinglePosition ==
    Cardinality(DOMAIN active_positions) = 1 =>
        \A s \in DOMAIN active_positions, r \in EVResults, acct \in AccountingStates :
            LET after == _maybe_rotate(EngineSelf, s, r, acct, now) IN
            /\ after.active_positions = active_positions
            /\ after.exits = <<>> /\ after.entered = {}
            /\ after.cooldowns = cooldowns

\* The last cycle reached the rotation step for the only open position,
\* with an EV that is not below the position's entry EV, and left it as it
\* was.
C14_Witness ==
    /\ Cardinality(DOMAIN active_positions) = 1
    /\ cycle.rotation_due = DOMAIN active_positions
    /\ cycle.exits = <<>> /\ cycle.entered = {}
    /\ \A s \in DOMAIN active_positions : active_positions[s].entry_time < now

\* The last n elements of a log, in the log's order.
LastN(log, n) == SubSeq(log, IF Len(log) > n THEN Len(log) - n + 1 ELSE 1, Len(log))

\* C15: the EV engine's trade history never holds more than trade_window
\* entries and the signal engine's history never more than its maxlen, and
\* each holds the most recent of the entries inserted into it, in insertion
\* order (the oldest are evicted first).
C15_HistoriesAreBoundedFifo ==
    /\ Len(ev_history) <= TradeWindow
    /\ ev_history = LastN(ev_log, TradeWindow)
    /\ Len(signal_history) <= SignalHistoryMaxLen
    /\ signal_history = LastN(signal_log, SignalHistoryMaxLen)

\* One entry more than the capacity has been inserted into each history,
\* the first of them unlike the second, and each holds capacity entries.
C15_Witness ==
    /\ Len(ev_log) = TradeWindow + 1
    /\ ev_log[1] # ev_log[2]
    /\ Len(ev_history) = TradeWindow
    /\ Len(signal_log) = SignalHistoryMaxLen + 1
    /\ signal_log[1] # signal_log[2]
    /\ Len(signal_history) = SignalHistoryMaxLen

\* A capacity for the drawdown history one below the number of losses a run
\* registers.
DrawdownCapacity == MaxLosses - 1

\* C16: after any sequence of register_trade_result calls the drawdown
\* history holds no more entries than a fixed capacity.
C16_DrawdownHistoryBounded == Len(drawdown_history) <= DrawdownCapacity

\* The tiers from the lowest to the highest, and the lower boundary of each
\* but the lowest, in units of 1/100000000.
Tiers ==
    <<"T6_defensive", "T5_scalping", "T4_neutral", "T3_moderate", "T2_strong",
      "T1_explosive">>

TierRank(tier) == CHOOSE i \in 1..Len(Tiers) : Tiers[i] = tier

TierFloor(rank) ==
    CASE rank = 6 -> 35000000
      [] rank = 5 -> 20000000
      [] rank = 4 -> 10000000
      [] rank = 3 -> 3000000
      [] rank = 2 -> -2000000

\* C17: the tier of an EV is the highest tier whose lower boundary (0.35,
\* 0.20, 0.10, 0.03, -0.02; none for T6) the EV reaches, a boundary value
\* included, and no EV at least as large gets a lower tier.
C17_TierIsMonotonicStep ==
    last_result.op = "_classify_ev" =>
        LET ev == last_result.args[1]
            tier == last_result.result.tier
        IN  /\ tier \in Range(Tiers)
            /\ tier = _classify_ev(ev)
            /\ TierRank(tier) > 1 => ev >= TierFloor(TierRank(tier))
            /\ \A rank \in 2..Len(Tiers) : rank > TierRank(tier) => ev < TierFloor(rank)
            /\ \A larger \in EvProbes :
                   larger >= ev => TierRank(_classify_ev(larger)) >= TierRank(tier)

\* The EV 0.35, a boundary, has been classified, as T1_explosive.
C17_Witness ==
    /\ last_result.op = "_classify_ev"
    /\ last_result.args[1] = 35000000
    /\ last_result.result.tier = "T1_explosive"

\* The last operation was calculate_ev_for_symbol and it returned an
\* EVResult (not {} and no exception).
HasEVResult ==
    /\ last_result.op = "calculate_ev_for_symbol"
    /\ last_result.result # <<>>

\* C18: whatever the market state, the fused score and the trade history,
\* an EVResult has p_win in [0.01, 0.99], G and L in [0.5, 5.0] and a Kelly
\* fraction in [0, 0.25].
C18_ResultWithinBounds ==
    HasEVResult =>
        /\ last_result.result.p_win \in 100..9900
        /\ last_result.result.G \in 5000..50000
        /\ last_result.result.L \in 5000..50000
        /\ last_result.result.kelly_position \in 0..2500

\* An EVResult for a market state whose raw gain, 10, is above the clip,
\* with the probability and the Kelly fraction at their upper bounds.
C18_Witness ==
    /\ HasEVResult
    /\ last_result.args[2] = BullState
    /\ last_result.result.G = 50000
    /\ last_result.result.p_win = 9900
    /\ last_result.result.kelly_position = 2500

\* The leverage range of a tier, low inclusive and high exclusive.
TierLeverage(tier) ==
    CASE tier = "T1_explosive" -> {l \in Int : 90 <= l /\ l < 120}
      [] tier = "T2_strong" -> {l \in Int : 50 <= l /\ l < 85}
      [] tier = "T3_moderate" -> {l \in Int : 20 <= l /\ l < 50}
      [] tier = "T4_neutral" -> {l \in Int : 10 <= l /\ l < 30}
      [] tier = "T5_scalping" -> {l \in Int : 5 <= l /\ l < 15}
      [] tier = "T6_defensive" -> {l \in Int : 1 <= l /\ l < 5}

\* C19: the recommended leverage of an EVResult is an integer in the range
\* of the tier the same result reports: T1 [90,120), T2 [50,85), T3 [20,50),
\* T4 [10,30), T5 [5,15), T6 [1,5).
C19_LeverageWithinTierRange ==
    HasEVResult =>
        last_result.result.recommended_leverage \in TierLeverage(last_result.result.tier)

\* An EVResult of tier T3_moderate with the highest leverage of its range.
C19_Witness ==
    /\ HasEVResult
    /\ last_result.result.tier = "T3_moderate"
    /\ last_result.result.recommended_leverage = 49

\* The features the formulas of G, L and fee name.
FormulaFeatures ==
    {"ATR", "momentum", "liquidity_score", "volatility", "depth_score", "slippage",
     "funding_rate"}

\* clamp(1 + 3 * ATR * momentum * liquidity, 0.5, 5.0)
FormulaGain(st) ==
    Clip(Unit + (3 * ((st.ATR * st.momentum) \div Unit) * st.liquidity_score) \div Unit,
         5000, 50000)

\* clamp(1 + 2 * volatility / depth + 10 * slippage, 0.5, 5.0)
FormulaLoss(st) ==
    Clip(Unit + (2 * st.volatility * Unit) \div st.depth_score + 10 * st.slippage,
         5000, 50000)

\* 0.0016 + 10 * |funding_rate| + 2 * slippage
FormulaFee(st) == 16 + 10 * Abs(st.funding_rate) + 2 * st.slippage

\* C20: for a market state that has every feature, G, L and the fee are
\* clamp(1 + 3 * ATR * momentum * liquidity, 0.5, 5.0),
\* clamp(1 + 2 * volatility / depth + 10 * slippage, 0.5, 5.0) and
\* 0.0016 + 10 * |funding_rate| + 2 * slippage, and the EV is
\* p * G - (1 - p) * L - fee; for ATR 0.01, momentum 1, liquidity 1,
\* volatility 1, depth 1, slippage 0.01, funding rate 0 and p 0.5 they are
\* 1.03, 3.1, 0.0216 and -1.0566, and the tier is T6_defensive.
C20_NetEvFormula ==
    /\ last_result.op \in {"calculate_ev_for_symbol", "expected_value"}
           /\ last_result.result # <<>>
           /\ FormulaFeatures \subseteq DOMAIN last_result.args[2]
        => LET st == last_result.args[2]
               r == last_result.result
           IN  /\ r.G = FormulaGain(st)
               /\ r.L = FormulaLoss(st)
               /\ r.EV = r.p_win * FormulaGain(st) - (Unit - r.p_win) * FormulaLoss(st)
                              - FormulaFee(st) * Unit
    /\ last_result.op = "expected_value" /\ last_result.args = <<5000, ExampleState>>
        => /\ ~last_result.raised
           /\ last_result.result.G = 10300
           /\ last_result.result.L = 31000
           /\ last_result.result.fees = 216
           /\ last_result.result.EV = -105660000
           /\ last_result.result.tier = "T6_defensive"

\* The EV has been computed for the example: p 0.5 and the example's market
\* state.
C20_Witness ==
    /\ last_result.op = "expected_value"
    /\ last_result.args = <<5000, ExampleState>>
    /\ last_result.result # <<>>

\* A step of SpecHistory that is a call of calculate_ev_for_symbol.
CalculateEvCall == CalculateEv(Symbols, HistoryStates, {1, 4, 90, 119}, MaxRecords)

\* The history after one entry for the call has been appended to it and the
\* oldest entry evicted if the window is exceeded.
WithEntry(history, symbol, win) ==
    LastN(Append(history, [symbol |-> symbol, win |-> win]), TradeWindow)

\* C21: every call of calculate_ev_for_symbol appends exactly one entry for
\* the symbol to the trade history, with the win flag EV > 0 of the call
\* when it has an EV, and evicts the oldest entry when the window is
\* exceeded.
C21_EveryCallAppends ==
    [][CalculateEvCall =>
          \E win \in BOOLEAN :
              /\ ev_history' = WithEntry(ev_history, last_result'.args[1], win)
              /\ HasEVResult' => win = (last_result'.result.EV > 0)]_vars

\* C21, amended: a call of calculate_ev_for_symbol that returns an EVResult
\* appends exactly one entry for the symbol, with the win flag EV > 0 of the
\* call, and evicts the oldest entry when the window is exceeded; a call
\* that returns none (no signal for the symbol) leaves the history as it
\* was.
C21_CallWithResultAppends ==
    [][CalculateEvCall =>
          IF HasEVResult'
          THEN ev_history' = WithEntry(ev_history, last_result'.args[1],
                                       last_result'.result.EV > 0)
          ELSE ev_history' = ev_history]_vars

\* A call has returned an EVResult with a positive EV when the window was
\* full: its entry is the last of the history and the oldest entry is gone.
C21_Witness ==
    /\ HasEVResult
    /\ last_result.result.EV > 0
    /\ Len(ev_log) > TradeWindow
    /\ ev_history[TradeWindow] = [symbol |-> last_result.args[1], win |-> TRUE]
    /\ ~ev_log[1].win

\* C22: degenerate arithmetic is never raised: no EV engine operation ends
\* in a division by zero, a depth_score of 0 included, and the Kelly
\* fraction for L = 0 is a value within [0, 0.25].
C22_DegenerateArithmeticNeverRaised ==
    /\ last_result.op # "none" => ~last_result.raised
    /\ \A p \in ProbabilityProbes :
           /\ ~_dynamic_kelly(p, Unit, 0).raised
           /\ _dynamic_kelly(p, Unit, 0).value \in 0..2500

\* What an operator can read off the engine and its risk manager.
EngineAttributes == <<active_positions, cooldowns, riskVars>>

\* C23: a cycle in which _check_risk refuses a symbol leaves that symbol's
\* position and cooldown as they were, handles the symbols after it, and
\* leaves a count of the rejection in what the operator can read.
C23_RejectionIsCounted ==
    [][ExecuteCycle(SingleSnapshots) /\ cycle'.skipped # <<>> =>
          /\ ~last_call'.ret
          /\ \A s \in Range(cycle'.skipped) :
                 /\ (s \in DOMAIN active_positions') = (s \in DOMAIN active_positions)
                 /\ s \in DOMAIN active_positions => active_positions'[s] = active_positions[s]
                 /\ (s \in DOMAIN cooldowns') = (s \in DOMAIN cooldowns)
                 /\ s \in DOMAIN cooldowns => cooldowns'[s] = cooldowns[s]
          /\ EngineAttributes' # EngineAttributes]_vars

\* The name of a tier without its description, as recovery_mode writes it.
ShortName(tier) ==
    CASE tier = "T1_explosive" -> "T1"
      [] tier = "T2_strong" -> "T2"
      [] tier = "T3_moderate" -> "T3"
      [] tier = "T4_neutral" -> "T4"
      [] tier = "T5_scalping" -> "T5"
      [] tier = "T6_defensive" -> "T6"

\* recovery_mode answers capital preservation exactly when the drawdown
\* (peak - equity) / peak is above 20%, normal for a peak of 0 or less, and
\* capital preservation comes with a resume condition.
RecoveryModeByDrawdown ==
    LET acct == last_call.args[1]
        above == /\ acct.equity_peak > 0
                 /\ 5 * (acct.equity_peak - acct.equity) > acct.equity_peak
    IN  /\ last_call.ret.mode = IF above THEN "capital_preservation" ELSE "normal"
        /\ above => "resume_condition" \in DOMAIN last_call.ret

\* C24: recovery_mode answers capital preservation exactly above a drawdown
\* of 20%, with a resume condition, and the tiers it then allows are the
\* two most conservative of the six bands (the two lowest).
C24_RecoveryAllowsTwoLowestTiers ==
    last_call.op = "recovery_mode" =>
        /\ RecoveryModeByDrawdown
        /\ last_call.ret.mode = "capital_preservation" =>
               Range(last_call.ret.allowed_tiers) = {ShortName(Tiers[1]), ShortName(Tiers[2])}

\* C24, amended: recovery_mode answers capital preservation exactly above
\* a drawdown of 20%, with a resume condition, and the tiers it then allows
\* are T4 and T5, the second and third lowest of the six bands; the lowest,
\* T6, is not allowed.
C24_RecoveryAllowsT4AndT5 ==
    last_call.op = "recovery_mode" =>
        /\ RecoveryModeByDrawdown
        /\ last_call.ret.mode = "capital_preservation" =>
               Range(last_call.ret.allowed_tiers) = {ShortName(Tiers[2]), ShortName(Tiers[3])}

\* recovery_mode has been asked at a drawdown of 21%, just above the limit,
\* and has answered capital preservation.
C24_Witness ==
    /\ last_call.op = "recovery_mode"
    /\ last_call.args[1] = [equity |-> 79, equity_peak |-> 100]
    /\ last_call.ret.mode = "capital_preservation"

\* C25: a position opened by a cycle has the notional balance x Kelly
\* fraction x recommended leverage of the EV result that triggered the
\* entry (the Kelly fraction in hundredths), that result's EV as entry EV
\* and its leverage, and the direction BUY if p_win > 0.5 and SELL
\* otherwise; and as long as a position stays open none of its fields
\* changes.
C25_EntryFieldsFixed ==
    [][/\ \A snapshot \in EntrySnapshots, acct \in EntryAccounting :
              ExecuteCycleOn(snapshot, acct) =>
                  \A i \in 1..Len(snapshot) :
                      snapshot[i].symbol \in cycle'.entered =>
                          LET r == snapshot[i].ev_result
                              pos == active_positions'[snapshot[i].symbol]
                          IN  /\ 100 * pos.notional
                                     = acct.available_balance * r.kelly_position
                                           * r.recommended_leverage
                              /\ pos.leverage = r.recommended_leverage
                              /\ pos.ev_entry = r.EV
                              /\ pos.direction = IF r.p_win > 50 THEN "BUY" ELSE "SELL"
                              /\ pos.entry_time = now
       /\ \A s \in DOMAIN active_positions \cap DOMAIN active_positions' :
              active_positions'[s] = active_positions[s]]_vars

\* A position opened with p_win = 0.5 at a balance of 500 (SELL, notional
\* 500 x 0.10 x 30) is still open later, cycles having run since.
C25_Witness ==
    /\ "BTCUSDT" \in DOMAIN active_positions
    /\ active_positions["BTCUSDT"].direction = "SELL"
    /\ active_positions["BTCUSDT"].ev_entry = 100
    /\ active_positions["BTCUSDT"].notional = 1500
    /\ active_positions["BTCUSDT"].entry_time < now
    /\ last_call.op = "execute_cycle"
    /\ cycle.entered = {}

\* C26: in a cycle, a symbol whose position an exit trigger closed is flat
\* at the end of the cycle and was not entered in it; and a position is
\* opened for a symbol only when the symbol has no position, or, by a
\* rotation, after the rotation's exit has removed it and recorded its
\* cooldown - and the cooldown of the symbol's previous exit is on record.
C26_ExitBeforeReentry ==
    [][ExecuteCycle(SingleSnapshots) =>
          /\ \A e \in 1..Len(cycle'.exits) :
                 cycle'.exits[e][2] # "Rotated for higher EV" =>
                     /\ cycle'.exits[e][1] \notin DOMAIN active_positions'
                     /\ cycle'.exits[e][1] \notin cycle'.entered
          /\ \A s \in cycle'.entered :
                 /\ \/ s \notin DOMAIN active_positions
                    \/ /\ <<s, "Rotated for higher EV">> \in Range(cycle'.exits)
                       /\ s \in DOMAIN cooldowns'
                       /\ cooldowns'[s] = now + CooldownMinutes
                 /\ s \in DOMAIN last_exit =>
                        /\ s \in DOMAIN cooldowns
                        /\ cooldowns[s] = last_exit[s] + CooldownMinutes]_vars

\* The last cycle closed the position for want of profit, no other exit
\* condition holding (so with an EV above the entry threshold), and left
\* the symbol flat.
C26_Witness ==
    /\ last_call.op = "execute_cycle"
    /\ cycle.exits = << <<"BTCUSDT", "No profit after 15m">> >>
    /\ cycle.conditions = << {"c"} >>
    /\ cycle.entered = {}
    /\ "BTCUSDT" \notin DOMAIN active_positions

\* C27: every symbol of a cycle is evaluated with the market state and the
\* fused signal of one generation, whatever the loops do in between, and
\* the signal was computed from the very features the market state is
\* taken from.
C27_OneSnapshotPerCycle ==
    \A i, j \in 1..Len(running.view) :
        /\ running.view[i].state = running.view[j].state
        /\ running.view[i].signal = running.view[j].signal
        /\ running.view[i].signal = running.view[i].state

\* C27, amended: every symbol of a cycle is evaluated with the market state
\* and the fused signal of one generation, whatever the loops do in
\* between; the signal is never of a newer generation than the market
\* state, but it can be of an older one.
C27_OneGenerationPerCycle ==
    \A i, j \in 1..Len(running.view) :
        /\ running.view[i].state = running.view[j].state
        /\ running.view[i].signal = running.view[j].signal
        /\ running.view[i].signal <= running.view[i].state

\* A cycle has handled both symbols with the features of the second
\* generation while the signals were those of the first.
C27_Witness ==
    /\ running.pending = <<>>
    /\ Len(running.view) = 2
    /\ running.view[1].state = 2
    /\ running.view[2].signal = 1

\* C28: signal fusion does not fail on a missing feature: in every
\* _compute_signals call, for every symbol of the feature mapping, the
\* breakdown is the one of the features with every missing one set to 0, it
\* holds one contribution for each of the nine components, the score is the
\* sum of the contributions, and the history gains one record per symbol,
\* in the order of the mapping.
Components ==
    {"breakout", "momentum", "whale_flow", "orderbook_imbalance", "funding_flip",
     "macro_sentiment", "onchain_flow", "etf_flow", "social_sentiment"}

WithZeros(feat) == [k \in FeatureKeys |-> Get(feat, k, 0)]

C28_MissingFeatureCountsAsZero ==
    [][\A features \in FusionFeatureSets :
           ComputeSignalsOn(features) =>
               /\ DOMAIN signals' = {features[i].symbol : i \in 1..Len(features)}
               /\ \A i \in 1..Len(features) :
                      LET s == signals'[features[i].symbol] IN
                          /\ DOMAIN s.components = Components
                          /\ s.components = _fusion(WithZeros(features[i].feat)).breakdown
                          /\ s.signal_score = SumOver(s.components, Components)
               /\ LET appended ==
                          [i \in 1..Len(features) |->
                               [symbol |-> features[i].symbol,
                                score |-> signals'[features[i].symbol].signal_score]]
                  IN  signal_history' =
                          LastN(signal_history \o appended, SignalHistoryMaxLen)]_vars

\* A call has fused a symbol with no feature at all: only the funding
\* factor, -0.2 without a positive funding_bias, contributes.
C28_Witness ==
    /\ "ETHUSDT" \in DOMAIN signals
    /\ signals["ETHUSDT"].signal_score = -100
    /\ signals["ETHUSDT"].components.funding_flip = -100
    /\ signals["BTCUSDT"].components.breakout = Weights.breakout
    /\ Len(signal_history) = SignalHistoryMaxLen

\* C29: execute_cycle always runs to completion: no cycle, whatever the
\* snapshot and the positions it meets, is left by an exception before the
\* last symbol of the snapshot has been handled.
C29_CycleRunsToCompletion == last_call.op = "execute_cycle" => ~last_call.ret

\* C30: after any sequence of register_trade_result, check_circuit_breaker
\* and pre_trade_check calls the consecutive-loss counter is not negative,
\* a counter at or above the streak limit of 3 means the breaker is active,
\* and an active breaker has a recorded trigger time that is not later
\* than the current time.
C30_BreakerInvariants ==
    /\ loss_streak >= 0
    /\ loss_streak >= StreakLimit => circuit_breaker_active
    /\ circuit_breaker_active =>
           last_trigger_time # NoTime /\ last_trigger_time <= now

\* The streak has passed the limit while the breaker, tripped earlier, is
\* still active.
C30_Witness ==
    /\ loss_streak > StreakLimit
    /\ circuit_breaker_active
    /\ last_trigger_time # NoTime
    /\ last_trigger_time < now

\* C31: execute_cycle changes the risk state only through the lazy
\* cooldown expiry of check_circuit_breaker: a cycle leaves the drawdown
\* history and the last-trigger time as they are, never trips the breaker
\* and never raises the loss streak; if it changes anything, the breaker
\* was active with its cooldown over and the cycle has re-armed it and
\* reset the streak.  This holds for the cycles that close a position too.
C31_CycleOnlyRearms ==
    [][ExecuteCycle(SingleSnapshots) =>
          /\ drawdown_history' = drawdown_history
          /\ last_trigger_time' = last_trigger_time
          /\ circuit_breaker_active' => circuit_breaker_active
          /\ loss_streak' <= loss_streak
          /\ <<circuit_breaker_active, loss_streak>>' # <<circuit_breaker_active, loss_streak>>
                 => /\ circuit_breaker_active
                    /\ now - last_trigger_time > BreakerCooldownMinutes
                    /\ ~circuit_breaker_active'
                    /\ loss_streak' = 0]_vars

\* A cycle has closed a position with the breaker re-armed after a streak
\* of three losses: the streak is reset, the losses and the trigger time
\* are still on record.
C31_Witness ==
    /\ last_call.op = "execute_cycle"
    /\ cycle.exits # <<>>
    /\ ~circuit_breaker_active
    /\ loss_streak = 0
    /\ hist.consec = StreakLimit
    /\ Len(drawdown_history) >= StreakLimit
    /\ last_trigger_time # NoTime
    /\ now - last_trigger_time > BreakerCooldownMinutes

\* C32: the tier classifier of the signal fusion and the one of the EV
\* engine never disagree on an EV: the tier _ev_classify gives to the EV it
\* has computed is the tier _classify_ev gives to that EV.
C32_ClassifiersAgree ==
    last_result.op = "_ev_classify" =>
        last_result.result.tier = _classify_ev(last_result.result.ev)

\* The signal engine has classified an EV that lies on the threshold of
\* the neutral tier.
C32_Witness ==
    /\ last_result.op = "_ev_classify"
    /\ last_result.result.ev = 3000000
    /\ last_result.result.tier = "T4_neutral"

\* C33: the unclamped Kelly fraction is (EV + fee) / G for the p, G and L
\* of the result, so an EV above a threshold that is not negative comes
\* with a positive Kelly fraction, and with a positive balance every
\* position execute_cycle opens has a positive notional.
C33_EntryHasPositiveNotional ==
    HasEVResult =>
        LET r == last_result.result
            fee == _estimate_fees(last_result.args[2])
        IN  /\ r.p_win * (r.G + r.L) - r.L * Unit = r.EV + fee * Unit
            /\ r.kelly_position = Clip((r.EV + fee * Unit) \div r.G, 0, 2500)
            /\ r.EV > 0 => r.p_win * (r.G + r.L) - r.L * Unit > 0
            /\ "BTCUSDT" \in cycle.entered =>
                   /\ r.kelly_position > 0
                   /\ active_positions["BTCUSDT"].notional > 0

\* C33, amended: the same for the results whose fee estimate is not
\* negative; the Kelly fraction is (EV + fee) / G whatever the fee.
C33_PositiveNotionalUnlessFeeNegative ==
    HasEVResult =>
        LET r == last_result.result
            fee == _estimate_fees(last_result.args[2])
        IN  /\ r.p_win * (r.G + r.L) - r.L * Unit = r.EV + fee * Unit
            /\ r.kelly_position = Clip((r.EV + fee * Unit) \div r.G, 0, 2500)
            /\ fee >= 0 =>
                   /\ r.EV > 0 => r.p_win * (r.G + r.L) - r.L * Unit > 0
                   /\ "BTCUSDT" \in cycle.entered =>
                          /\ r.kelly_position > 0
                          /\ active_positions["BTCUSDT"].notional > 0

\* A cycle has opened a position on a result with a fee that is not
\* negative and a Kelly fraction inside the clamp.
C33_Witness ==
    /\ HasEVResult
    /\ "BTCUSDT" \in cycle.entered
    /\ _estimate_fees(last_result.args[2]) >= 0
    /\ last_result.result.kelly_position \in 1..2499
    /\ active_positions["BTCUSDT"].notional > 0

====
